---- MODULE Spec2Model ----
(***************************************************************************)
(* Model of the command-driven conversation pipeline of pai-server:        *)
(* CommandParser (domain/services/command_parser.py), ConversationUseCases *)
(* (application/use_cases/conversation_use_cases.py), the conversation     *)
(* store (infrastructure/repositories/conversation_repository.py) and the  *)
(* LLM gateway (infrastructure/services/claude_service.py).                *)
(*                                                                         *)
(* Text is a sequence of one-character strings.  Requests run on an        *)
(* asyncio event loop: one action is the code a request executes between   *)
(* two suspension points (an await on the network or a yield to the        *)
(* consumer of a stream).                                                  *)
(***************************************************************************)
EXTENDS Integers, Sequences, FiniteSets, TLC

(***************************************************************************)
(* Text helpers (Python str semantics)                                     *)
(***************************************************************************)

\* str.isspace() for the characters used
WhiteSpace == {" ", "\t", "\n"}

UpperCase == <<"A","B","C","D","E","F","G","H","I","J","K","L","M",
               "N","O","P","Q","R","S","T","U","V","W","X","Y","Z">>

LowerCase == <<"a","b","c","d","e","f","g","h","i","j","k","l","m",
               "n","o","p","q","r","s","t","u","v","w","x","y","z">>

Digits == {"0","1","2","3","4","5","6","7","8","9"}

\* Python None where a text is expected
NoneText == <<"None">>

\* The value of a one-element set.  { e(x) : x \in {v} } evaluates v once
\* and names it x, as an assignment to a local variable does.
Only(S) == CHOOSE x \in S : TRUE

LowerChar(c) ==
    IF \E i \in 1..26 : UpperCase[i] = c
    THEN LowerCase[CHOOSE i \in 1..26 : UpperCase[i] = c]
    ELSE c

\* str.lower()
Lower(text) == Only({ [i \in 1..Len(s) |-> LowerChar(s[i])] : s \in {text} })

\* regex \w
IsWordChar(c) ==
    \/ \E i \in 1..26 : UpperCase[i] = c \/ LowerCase[i] = c
    \/ c \in Digits
    \/ c = "_"

\* s[i:] with a 1-based index
From(s, i) == IF i > Len(s) THEN <<>> ELSE SubSeq(s, i, Len(s))

\* s[:n]
Take(s, n) == IF n >= Len(s) THEN s ELSE SubSeq(s, 1, n)

\* str.startswith
StartsWith(s, p) == Len(p) <= Len(s) /\ SubSeq(s, 1, Len(p)) = p

\* the pattern p occurs in s at position i
MatchAt(s, p, i) == i >= 1 /\ i + Len(p) - 1 <= Len(s) /\ SubSeq(s, i, i + Len(p) - 1) = p

\* Python "p in s"
Contains(s, p) == \E i \in 1..(Len(s) + 1) : MatchAt(s, p, i)

\* str.strip(chars): drop leading and trailing characters of the set
StripChars(text, cs) ==
    Only({ LET keep == {i \in 1..Len(s) : s[i] \notin cs}
           IN  IF keep = {} THEN <<>>
               ELSE LET lo == CHOOSE i \in keep : \A j \in keep : i <= j
                        hi == CHOOSE i \in keep : \A j \in keep : i >= j
                    IN  SubSeq(s, lo, hi)
           : s \in {text} })

\* str.strip()
Strip(s) == StripChars(s, WhiteSpace)

\* length of the run of characters satisfying a set membership from i on
RECURSIVE RunLen(_, _, _)
RunLen(s, i, cs) ==
    Only({ IF j > Len(s) \/ s[j] \notin cs THEN 0 ELSE 1 + RunLen(s, j + 1, cs) : j \in {i} })

RECURSIVE WordRunLen(_, _)
WordRunLen(s, i) ==
    Only({ IF j > Len(s) \/ ~IsWordChar(s[j]) THEN 0 ELSE 1 + WordRunLen(s, j + 1) : j \in {i} })

\* str.split(maxsplit=1) on a text without leading whitespace:
\* the first whitespace-delimited word and the rest after the separator run
FirstWordLen(s) ==
    IF \E i \in 1..Len(s) : s[i] \in WhiteSpace
    THEN (CHOOSE i \in 1..Len(s) : s[i] \in WhiteSpace /\ \A j \in 1..(i-1) : s[j] \notin WhiteSpace) - 1
    ELSE Len(s)

SplitFirst(s) ==
    Only({ <<Take(s, n), From(s, n + RunLen(s, n + 1, WhiteSpace) + 1)>> : n \in {FirstWordLen(s)} })


(***************************************************************************)
(* CommandParser (domain/services/command_parser.py)                       *)
(***************************************************************************)

COMMAND_PREFIX == <<"#">>

\* CommandType values
CommandType == {"calendar", "reminder", "task", "note", "scan", "help", "unknown"}

\* keyword table, in dictionary order
COMMAND_KEYWORDS ==
    << [keyword |-> <<"c","a","l","e","n","d","a","r">>, cmd_type |-> "calendar"],
       [keyword |-> <<"a","g","e","n","d","a">>, cmd_type |-> "calendar"],
       [keyword |-> <<"c","a","l">>, cmd_type |-> "calendar"],
       [keyword |-> <<"r","e","m","i","n","d","e","r">>, cmd_type |-> "reminder"],
       [keyword |-> <<"h","e","r","i","n","n","e","r","i","n","g">>, cmd_type |-> "reminder"],
       [keyword |-> <<"t","a","s","k">>, cmd_type |-> "task"],
       [keyword |-> <<"t","a","a","k">>, cmd_type |-> "task"],
       [keyword |-> <<"t","o","d","o">>, cmd_type |-> "task"],
       [keyword |-> <<"n","o","t","e">>, cmd_type |-> "note"],
       [keyword |-> <<"n","o","t","i","t","i","e">>, cmd_type |-> "note"],
       [keyword |-> <<"s","c","a","n">>, cmd_type |-> "scan"],
       [keyword |-> <<"h","e","l","p">>, cmd_type |-> "help"],
       [keyword |-> <<"h","u","l","p">>, cmd_type |-> "help"] >>

\* COMMAND_KEYWORDS.get(word, CommandType.UNKNOWN)
KeywordLookup(word) ==
    IF \E k \in 1..Len(COMMAND_KEYWORDS) : COMMAND_KEYWORDS[k].keyword = word
    THEN COMMAND_KEYWORDS[CHOOSE k \in 1..Len(COMMAND_KEYWORDS) : COMMAND_KEYWORDS[k].keyword = word].cmd_type
    ELSE "unknown"

\* any(word in text for word in words)
AnyIn(words, text) == \E w \in words : Contains(text, w)

\* _extract_time_context
ExtractTimeContext(text) ==
    IF AnyIn({<<"v","a","n","d","a","a","g">>, <<"t","o","d","a","y">>}, text) THEN "today"
    ELSE IF AnyIn({<<"m","o","r","g","e","n">>, <<"t","o","m","o","r","r","o","w">>}, text) THEN "tomorrow"
    ELSE IF AnyIn({<<"w","e","e","k">>, <<"d","e","z","e"," ","w","e","e","k">>}, text) THEN "this_week"
    ELSE IF AnyIn({<<"m","a","a","n","d">>, <<"d","e","z","e"," ","m","a","a","n","d">>}, text) THEN "this_month"
    ELSE "None"

\* _extract_calendar_params
ExtractCalendarParams(text) ==
    LET text_lower == Lower(text)
        action ==
            IF AnyIn({<<"m","a","a","k">>, <<"p","l","a","n">>, <<"a","f","s","p","r","a","a","k">>,
                      <<"t","o","e","v","o","e","g">>}, text_lower) THEN "create"
            ELSE IF AnyIn({<<"l","i","j","s","t">>, <<"t","o","o","n">>, <<"b","e","k","i","j","k">>,
                           <<"o","v","e","r","z","i","c","h","t">>}, text_lower) THEN "list"
            ELSE IF AnyIn({<<"v","a","n","d","a","a","g">>, <<"t","o","d","a","y">>}, text_lower) THEN "today"
            ELSE IF AnyIn({<<"m","o","r","g","e","n">>, <<"t","o","m","o","r","r","o","w">>}, text_lower) THEN "tomorrow"
            ELSE IF AnyIn({<<"v","e","r","w","i","j","d","e","r">>, <<"d","e","l","e","t","e">>,
                           <<"a","n","n","u","l","e","e","r">>}, text_lower) THEN "delete"
            ELSE "unknown"
    IN  [action |-> action, time_context |-> ExtractTimeContext(text_lower)]

\* _extract_note_params
ExtractNoteParams(text) ==
    LET text_lower == Lower(text)
        action ==
            IF AnyIn({<<"m","a","a","k">>, <<"n","i","e","u","w">>, <<"s","c","h","r","i","j","f">>}, text_lower) THEN "create"
            ELSE IF AnyIn({<<"l","i","j","s","t">>, <<"t","o","o","n">>, <<"b","e","k","i","j","k">>}, text_lower) THEN "list"
            ELSE IF AnyIn({<<"z","o","e","k">>, <<"v","i","n","d">>, <<"s","e","a","r","c","h">>}, text_lower) THEN "search"
            ELSE "unknown"
    IN  [action |-> action]

\* _extract_scan_params
ExtractScanParams(text) ==
    LET text_lower == Lower(text)
        scan_type ==
            IF Contains(text_lower, <<"b","o","n">>) \/ Contains(text_lower, <<"r","e","c","e","i","p","t">>) THEN "receipt"
            ELSE IF Contains(text_lower, <<"f","o","t","o">>) \/ Contains(text_lower, <<"i","m","a","g","e">>) THEN "image"
            ELSE "document"
    IN  [scan_type |-> scan_type]

\* _extract_help_params: the first keyword of the table found in the text;
\* the topic is a CommandType member (not a string), "None" when absent
ExtractHelpParams(text) ==
    LET text_lower == Lower(text)
        hits == {k \in 1..Len(COMMAND_KEYWORDS) : Contains(text_lower, COMMAND_KEYWORDS[k].keyword)}
    IN  [topic |-> IF hits = {} THEN "None"
                   ELSE COMMAND_KEYWORDS[CHOOSE k \in hits : \A j \in hits : k <= j].cmd_type]


\* ---- _extract_task_params: the four regular expressions ----

\* length of the match of r'@\w+' at position i of s, 0 when there is none
MentionLen(s, i) ==
    IF i <= Len(s) /\ s[i] = "@" /\ WordRunLen(s, i + 1) > 0
    THEN 1 + WordRunLen(s, i + 1) ELSE 0

\* the group (low|medium|high) at j (s lower-cased), <<>> when there is none
PriorityLevelAt(s, j) ==
    IF MatchAt(s, <<"l","o","w">>, j) THEN <<"l","o","w">>
    ELSE IF MatchAt(s, <<"m","e","d","i","u","m">>, j) THEN <<"m","e","d","i","u","m">>
    ELSE IF MatchAt(s, <<"h","i","g","h">>, j) THEN <<"h","i","g","h">>
    ELSE <<>>

\* length of the match of r'priority\s+(low|medium|high)' at i (s lower-cased)
PriorityLen(s, i) ==
    Only({ IF MatchAt(s, <<"p","r","i","o","r","i","t","y">>, i) /\ ws > 0
              /\ PriorityLevelAt(s, i + 8 + ws) # <<>>
           THEN 8 + ws + Len(PriorityLevelAt(s, i + 8 + ws)) ELSE 0
           : ws \in {RunLen(s, i + 8, WhiteSpace)} })

\* the alternatives (?:\s+priority|\s+tags|\s+@|$) that end a deadline phrase, at j
DeadlineEndAt(s, j) ==
    Only({ \/ ws > 0 /\ MatchAt(s, <<"p","r","i","o","r","i","t","y">>, j + ws)
           \/ ws > 0 /\ MatchAt(s, <<"t","a","g","s">>, j + ws)
           \/ ws > 0 /\ MatchAt(s, <<"@">>, j + ws)
           \/ j = Len(s) + 1
           \/ j = Len(s) /\ s[j] = "\n"
           : ws \in {RunLen(s, j, WhiteSpace)} })

\* the ways r'deadline\s+(.+?)(?:...)' matches at i: <<w, l>> are the lengths
\* of \s+ and of the group, which does not cross a newline
DeadlineMatches(s, i) ==
    IF ~MatchAt(s, <<"d","e","a","d","l","i","n","e">>, i) THEN {}
    ELSE {wl \in (1..RunLen(s, i + 8, WhiteSpace)) \X (1..Len(s)) :
             /\ i + 8 + wl[1] + wl[2] - 1 <= Len(s)
             /\ \A x \in (i + 8 + wl[1])..(i + 8 + wl[1] + wl[2] - 1) : s[x] # "\n"
             /\ DeadlineEndAt(s, i + 8 + wl[1] + wl[2])}

\* the match the regex engine finds at i: \s+ is greedy and backtracks, .+?
\* is lazy; <<0, 0>> when there is no match at i
DeadlineSplit(s, i) ==
    Only({ IF ok = {} THEN <<0, 0>>
           ELSE CHOOSE wl \in ok : \A o \in ok : wl[1] > o[1] \/ (wl[1] = o[1] /\ wl[2] <= o[2])
           : ok \in {DeadlineMatches(s, i)} })

DeadlineLen(s, i) ==
    Only({ IF wl[1] = 0 THEN 0 ELSE 8 + wl[1] + wl[2] : wl \in {DeadlineSplit(s, i)} })

\* the ends of the runs of [\w,] that start at j
TagChars(s, j) == {x \in j..Len(s) : \A y \in j..x : IsWordChar(s[y]) \/ s[y] = ","}

\* r'tags?\s+([\w,]+)' at i, the keyword taken as n characters:
\* <<offset of the group, length of the group>>
TagsAfter(s, i, n) ==
    Only({ IF n > 0 /\ ws > 0 /\ TagChars(s, i + n + ws) # {}
           THEN <<n + ws, Cardinality(TagChars(s, i + n + ws))>>
           ELSE <<0, 0>>
           : ws \in {RunLen(s, i + n, WhiteSpace)} })

\* "tags" is tried before "tag"
TagsSplit(s, i) ==
    IF ~MatchAt(s, <<"t","a","g">>, i) THEN <<0, 0>>
    ELSE Only({ IF withS[1] > 0 THEN withS ELSE TagsAfter(s, i, 3)
                : withS \in {TagsAfter(s, i, IF MatchAt(s, <<"t","a","g","s">>, i) THEN 4 ELSE 0)} })

TagsLen(s, i) == Only({ g[1] + g[2] : g \in {TagsSplit(s, i)} })

PatternLen(pat, s, i) ==
    CASE pat = "mention"  -> MentionLen(s, i)
      [] pat = "priority" -> PriorityLen(s, i)
      [] pat = "deadline" -> DeadlineLen(s, i)
      [] pat = "tags"     -> TagsLen(s, i)

\* re.search: position of the leftmost match of the pattern, 0 when none
Search(pat, s) ==
    Only({ IF hits = {} THEN 0 ELSE CHOOSE i \in hits : \A j \in hits : i <= j
           : hits \in {{i \in 1..Len(s) : PatternLen(pat, s, i) > 0}} })

\* re.sub(pattern, '', text, flags=IGNORECASE) from position i on: every
\* non-overlapping match, found on the lower-cased text l, is cut out of s.
\* The text up to the leftmost match at or after i is kept, and the scan
\* goes on behind that match.
RECURSIVE SubAll(_, _, _, _)
SubAll(pat, s, l, i) ==
    Only({ IF hits = {} THEN From(s, i)
           ELSE Only({ SubSeq(s, i, j - 1) \o SubAll(pat, s, l, j + PatternLen(pat, l, j))
                       : j \in {CHOOSE h \in hits : \A k \in hits : h <= k} })
           : hits \in {{h \in i..Len(s) : PatternLen(pat, l, h) > 0}} })

\* str.split(',')
RECURSIVE SplitComma(_)
SplitComma(text) ==
    Only({ IF \E i \in 1..Len(s) : s[i] = ","
           THEN Only({ <<Take(s, c - 1)>> \o SplitComma(From(s, c + 1))
                       : c \in {CHOOSE i \in 1..Len(s) : s[i] = "," /\ \A j \in 1..(i-1) : s[j] # ","} })
           ELSE <<s>>
           : s \in {text} })

\* nothing extracted yet
TaskStart(text) == [params |-> [k \in {} |-> <<>>], text |-> text]

\* the delegate: the first @word, every @word cut out of the text
TaskMention(st) ==
    Only({ IF pm = 0 THEN st
           ELSE [params |-> st.params @@
                            [k \in {"delegated_to"} |-> SubSeq(st.text, pm + 1, pm + MentionLen(st.text, pm) - 1)],
                 text |-> SubAll("mention", st.text, st.text, 1)]
           : pm \in {Search("mention", st.text)} })

\* the priority, searched in the lower-cased text l
TaskPriorityIn(st, l) ==
    Only({ IF pr = 0 THEN st
           ELSE [params |-> st.params @@
                            [k \in {"priority"} |-> PriorityLevelAt(l, pr + 8 + RunLen(l, pr + 8, WhiteSpace))],
                 text |-> SubAll("priority", st.text, l, 1)]
           : pr \in {Search("priority", l)} })

TaskPriority(st) == Only({ TaskPriorityIn(st, l) : l \in {Lower(st.text)} })

\* the deadline: the group of the match, stripped
TaskDeadlineAt(st, l, dl) ==
    Only({ [params |-> st.params @@
                       [k \in {"due_date"} |-> Strip(SubSeq(l, dl + 8 + wl[1], dl + 8 + wl[1] + wl[2] - 1))],
            text |-> SubAll("deadline", st.text, l, 1)]
           : wl \in {DeadlineSplit(l, dl)} })

TaskDeadlineIn(st, l) ==
    Only({ IF dl = 0 THEN st ELSE TaskDeadlineAt(st, l, dl) : dl \in {Search("deadline", l)} })

TaskDeadline(st) == Only({ TaskDeadlineIn(st, l) : l \in {Lower(st.text)} })

\* the tags: the group of the match split at the commas, each part stripped
TaskTagsAt(st, l, tg) ==
    Only({ [params |-> st.params @@
                       [k \in {"tags"} |->
                           Only({ [n \in 1..Len(parts) |-> Strip(parts[n])]
                                  : parts \in {SplitComma(SubSeq(l, tg + g[1], tg + g[1] + g[2] - 1))} })],
            text |-> SubAll("tags", st.text, l, 1)]
           : g \in {TagsSplit(l, tg)} })

TaskTagsIn(st, l) ==
    Only({ IF tg = 0 THEN st ELSE TaskTagsAt(st, l, tg) : tg \in {Search("tags", l)} })

TaskTags(st) == Only({ TaskTagsIn(st, l) : l \in {Lower(st.text)} })

\* _extract_task_params taking the title from the lower-cased text
ExtractTaskParamsLower(text) ==
    Only({ Only({ Only({ Only({ s4.params @@ [k \in {"title"} |-> Lower(Strip(s4.text))]
                                : s4 \in {TaskTags(s3)} })
                         : s3 \in {TaskDeadline(s2)} })
                  : s2 \in {TaskPriority(s1)} })
           : s1 \in {TaskMention(TaskStart(text))} })

\* _extract_task_params: delegate, then priority, then deadline, then tags;
\* what is left is the title.  A key is present only when its pattern matched.
ExtractTaskParams(text) ==
    Only({ Only({ Only({ Only({ s4.params @@ [k \in {"title"} |-> Strip(s4.text)]
                                : s4 \in {TaskTags(s3)} })
                         : s3 \in {TaskDeadline(s2)} })
                  : s2 \in {TaskPriority(s1)} })
           : s1 \in {TaskMention(TaskStart(text))} })

\* _extract_parameters
ExtractParameters(command_type, text) ==
    LET base == [k \in {"raw_text"} |-> text]
    IN  CASE command_type = "calendar" -> ExtractCalendarParams(text) @@ base
          [] command_type = "reminder" -> ExtractCalendarParams(text) @@ base
          [] command_type = "task"     -> ExtractTaskParams(text) @@ base
          [] command_type = "note"     -> ExtractNoteParams(text) @@ base
          [] command_type = "scan"     -> ExtractScanParams(text) @@ base
          [] command_type = "help"     -> ExtractHelpParams(text) @@ base
          [] OTHER                     -> base

\* the empty dict
EmptyParams == [k \in {} |-> <<>>]

\* parse after the split: the keyword, the command type, the parameters
ParseParts(text, parts) ==
    Only({ [command_type |-> command_type, original_text |-> text,
            command_text |-> parts[2],
            parameters |-> ExtractParameters(command_type, parts[2])]
           : command_type \in {KeywordLookup(Lower(From(parts[1], 2)))} })

\* parse recording the raw text also for a text without the prefix
ParseStrippedWithRawText(text) ==
    IF ~StartsWith(text, COMMAND_PREFIX)
    THEN [command_type |-> "unknown", original_text |-> text,
          command_text |-> <<>>, parameters |-> [k \in {"raw_text"} |-> text]]
    ELSE Only({ ParseParts(text, parts) : parts \in {SplitFirst(text)} })

\* parse of the stripped text
ParseStripped(text) ==
    IF ~StartsWith(text, COMMAND_PREFIX)
    THEN [command_type |-> "unknown", original_text |-> text,
          command_text |-> <<>>, parameters |-> EmptyParams]
    ELSE Only({ ParseParts(text, parts) : parts \in {SplitFirst(text)} })

\* CommandParser.parse
Parse(raw) == Only({ ParseStripped(text) : text \in {Strip(raw)} })

\* is_command answering True for every parse
IsCommandAlways(parsed) == TRUE

\* ParsedCommand.is_command
IsCommand(parsed) == parsed.command_type # "unknown"


\* ParsedCommand.get_help_text: one static text per command type, the generic
\* text for a type without a dedicated entry
UnknownCommandText == <<"Onbekend commando. Typ #help voor beschikbare commando's.">>

GetHelpText(command_type) ==
    CASE command_type = "calendar" -> <<"Calendar commando's: ...">>
      [] command_type = "reminder" -> <<"Reminder commando's: ...">>
      [] command_type = "task"     -> <<"Taak commando's: ...">>
      [] command_type = "note"     -> <<"Notitie commando's: ...">>
      [] command_type = "scan"     -> <<"Scan commando's: ...">>
      [] command_type = "help"     -> <<"Beschikbare commando's: ...">>
      [] OTHER                     -> UnknownCommandText

(***************************************************************************)
(* Bounds and input sets                                                   *)
(***************************************************************************)

\* conversations ever created (ids are never reused)
MaxConvs == 1

\* sends that get as far as storing their user message, requests served one at a time
MaxSends == 1

\* sends that get as far as storing their user message, requests interleaved
MaxConcSends == 2

\* requests in flight at the same time
MaxProcs == 2

Users   == {"u1", "u2"}
ConvIds == 1..MaxConvs
Procs   == 1..MaxProcs

\* ConversationCreateRequest.mode
Modes == {"chat"}

\* message contents sent by the clients: plain chat, every command type,
\* a prefixed text with a keyword outside the table
Contents ==
    { <<"h","i">>,
      <<"#","h","e","l","p">>,
      <<"#","h","e","l","p"," ","t","a","s","k">>,
      <<"#","f","o","o"," ","x">>,
      <<"#","c","a","l"," ","l","u","n","c","h">>,
      <<"#","r","e","m","i","n","d","e","r"," ","g","y","m">>,
      <<"#","t","a","s","k"," ","R"," ","@","b","o","b">>,
      <<"#","t","a","s","k"," ","@","b","o","b">>,
      <<"#","n","o","t","e">>,
      <<" ","#","S","C","A","N"," ","b","o","n">> }


\* replies of the LLM to a plain-chat completion: the joined text blocks
\* (empty when the response carries no text block)
ChatReplies == { <<>>, <<"a","b">> }

\* Lines of the LLM's server-sent-event body, as send_message_stream reads
\* them: a text delta, a delta with empty text, an "event:" or comment line,
\* a data line of another event type, a data line that is not JSON, the
\* message_stop event, the [DONE] marker, an error event (type "error", by
\* which the upstream reports that the generation failed), and the transport
\* raising.  A status other than 200 raises before the first line.
Delta(text) == [line |-> "delta", text |-> text]
SkipLine(l) == [line |-> l, text |-> <<>>]

StreamBodies ==
    { << Delta(<<"a">>), Delta(<<"b">>), SkipLine("message_stop") >>,
      << SkipLine("event"), Delta(<<"a">>), SkipLine("malformed"), SkipLine("delta_empty"),
         SkipLine("other"), Delta(<<"b">>), SkipLine("done"), Delta(<<"c">>) >>,
      << Delta(<<"a">>), SkipLine("raise") >>,
      << SkipLine("raise") >>,
      << SkipLine("message_stop") >>,
      << Delta(<<"a">>), SkipLine("error") >> }

\* Times are minutes on one axis; a JSON field is absent, not a date, or a time.
Missing == -1
BadDate == -2

\* reminders last 5 minutes
ReminderMinutes == 5

\* title prefix of a reminder event
ReminderPrefix == <<"(bell)", " ">>

\* Texts the LLM returns to the extraction prompt of a CALENDAR or REMINDER
\* command: not JSON, or a JSON object with its fields
ExtractionResponses ==
    { [json |-> FALSE, title |-> NoneText, start_time |-> Missing, end_time |-> Missing],
      [json |-> TRUE,  title |-> <<"T">>,  start_time |-> 10,      end_time |-> 20],
      [json |-> TRUE,  title |-> NoneText, start_time |-> 10,      end_time |-> 20],
      [json |-> TRUE,  title |-> <<"T">>,  start_time |-> BadDate, end_time |-> 20],
      [json |-> TRUE,  title |-> <<"T">>,  start_time |-> 20,      end_time |-> 10],
      [json |-> TRUE,  title |-> <<" ">>,  start_time |-> 10,      end_time |-> 20] }

\* titles the LLM proposes to generate_title
TitleReplies == { <<"\"","T","i","p","\"">> }

\* ConversationCreateRequest.title
TitleInputs == { NoneText }

\* the fixed default title
DefaultTitle == <<"Nieuwe chat">>

TitleMaxLen == 50

FallbackLen == 30

\* contents sent in the runs about titles: a short text, a text with leading
\* whitespace, a text of more than 30 characters whose 30th is a space
TitleContents ==
    { <<"h","i">>,
      <<" ","#","S","C","A","N"," ","b","o","n">>,
      [i \in 1..(FallbackLen + 2) |-> IF i = FallbackLen THEN " " ELSE "a"] }

\* texts the LLM returns to generate_title in those runs: a quoted title, no
\* text, quotes only, double quotes inside single quotes, padded with
\* whitespace, and more than 50 characters with a space as the 50th
TitleTexts ==
    { <<"\"","T","i","p","\"">>,
      <<>>,
      <<"\"","\"">>,
      <<"'","\"","x","\"","'">>,
      <<" ","T"," ">>,
      [i \in 1..(TitleMaxLen + 2) |-> IF i = TitleMaxLen THEN " " ELSE "a"] }

\* CommandParser.parse of every content the clients send
ParsedContent == [content \in Contents \cup TitleContents |-> Parse(content)]

(***************************************************************************)
(* State                                                                   *)
(***************************************************************************)

VARIABLES
    conversations,             \* conversations table: id -> row
    messages,                  \* messages table: conversation id -> rows in created_at order
    nextConv,                  \* next fresh conversation id
    requests,                  \* the requests in flight, one slot per concurrent request
    nsends,                    \* sends that stored their user message so far (numbers the calls)
    tasks,                     \* tasks table
    task_number_seq,           \* the database sequence task_number_seq
    events,                    \* events created at the calendar providers
    primary_calendar_provider, \* user_settings.primary_calendar_provider
    oauth_tokens,              \* oauth_tokens table: user -> provider -> access token
    transactions_store,        \* the in-memory list of the monitor router
    logged                     \* bookkeeping: log_transaction calls so far, and so far at the last clear

vars == <<conversations, messages, nextConv, requests, nsends,
          tasks, task_number_seq, events, primary_calendar_provider,
          oauth_tokens, transactions_store, logged>>

\* the calendar providers
Providers == {"google", "microsoft"}

\* a conversation id without a row; of a deleted row the model remembers
\* its owner and who deleted it
NoConversation == [state |-> "absent", user_id |-> "", title |-> <<>>, mode |-> "", deleted_by |-> ""]

\* no answer of the LLM to an extraction prompt; no call of create_event
NoExtraction   == [json |-> FALSE, title |-> NoneText, start_time |-> Missing, end_time |-> Missing]
NoEventRequest == [title |-> NoneText, start_time |-> Missing, end_time |-> Missing]

\* no ParsedCommand
NoParse == [command_type |-> "None", original_text |-> NoneText, command_text |-> NoneText,
            parameters |-> EmptyParams]

\* a free request slot; extracted and event_request are bookkeeping: what the
\* extraction call returned and what create_event was called with
IdleRequest ==
    [op |-> "none", pc |-> "idle", conversation_id |-> 0, user_id |-> "", content |-> <<>>,
     call |-> 0, snapshot |-> <<>>, full_response |-> <<>>, body |-> <<>>, chunks |-> <<>>,
     result |-> NoneText, error |-> "", llm_calls |-> 0, adapter_calls |-> 0, fault |-> "",
     user_saved |-> FALSE, extracted |-> NoExtraction, event_request |-> NoEventRequest,
     task_number |-> 0, parsed |-> NoParse]

Init ==
    /\ conversations = [c \in ConvIds |-> NoConversation]
    /\ messages = [c \in ConvIds |-> <<>>]
    /\ nextConv = 1
    /\ requests = [p \in Procs |-> IdleRequest]
    /\ nsends = 0
    /\ tasks = <<>>
    /\ task_number_seq = 0
    /\ events = <<>>
    /\ primary_calendar_provider = [u \in Users |-> IF u = "u1" THEN "google" ELSE "None"]
    /\ oauth_tokens = [u \in Users |-> [provider \in Providers |->
                          IF u = "u1" /\ provider = "google" THEN "a1" ELSE "None"]]
    /\ transactions_store = <<>>
    /\ logged = [count |-> 0, cleared |-> 0]


(***************************************************************************)
(* ConversationRepository                                                  *)
(***************************************************************************)

\* get_conversation without the filter on the owner
GetConversationAnyOwner(c, u) ==
    /\ c \in ConvIds
    /\ conversations[c].state = "live"

\* get_conversation(conversation_id, user_id): the row, filtered by owner
GetConversation(c, u) ==
    /\ c \in ConvIds
    /\ conversations[c].state = "live"
    /\ conversations[c].user_id = u

\* the row exists (foreign key target of messages.conversation_id)
Exists(c) == c \in ConvIds /\ conversations[c].state = "live"

\* metadata of an assistant message: add_message stores `metadata or {}`
EmptyMeta == [k \in {} |-> <<>>]

\* None in the place of the parameter dict
NoneParams == [k \in {"None"} |-> <<>>]

\* add_message with the new row read back ahead of the older ones
AddMessageFirst(msgs, c, role, content, meta, call) ==
    [msgs EXCEPT ![c] = <<[role |-> role, content |-> content, meta |-> meta, call |-> call]>> \o @]

\* add_message: a new row at the end of the conversation's created_at order;
\* call is bookkeeping: the number of the send that stored the row
AddMessage(msgs, c, role, content, meta, call) ==
    [msgs EXCEPT ![c] = Append(@, [role |-> role, content |-> content, meta |-> meta, call |-> call])]

\* metadata of the user message as send_message builds it
UserMeta(parsed) ==
    [command        |-> IF IsCommand(parsed) THEN parsed.command_type ELSE "None",
     command_params |-> IF IsCommand(parsed) THEN parsed.parameters ELSE NoneParams]

\* messages.meta is a JSON column: the HELP topic is a CommandType enum
\* member, which the default JSON serializer rejects at commit
JsonSerializable(meta) ==
    ~("topic" \in DOMAIN meta.command_params /\ meta.command_params["topic"] # "None")

(***************************************************************************)
(* ClaudeService.send_message_stream: the loop over the body's lines       *)
(***************************************************************************)

\* runs the loop from the current line to the next yield, to the end of the
\* loop or to the exception; errors records that an error event was among
\* the lines the loop passed over
RECURSIVE NextEvent(_)
NextEvent(body) ==
    IF body = <<>> THEN [kind |-> "end", text |-> <<>>, rest |-> <<>>, errors |-> FALSE]
    ELSE LET l == Head(body)
         IN  CASE l.line = "delta" -> [kind |-> "chunk", text |-> l.text, rest |-> Tail(body), errors |-> FALSE]
               [] l.line \in {"message_stop", "done"} -> [kind |-> "end", text |-> <<>>, rest |-> <<>>, errors |-> FALSE]
               [] l.line = "raise" -> [kind |-> "raise", text |-> <<>>, rest |-> <<>>, errors |-> FALSE]
               [] l.line = "error" -> [NextEvent(Tail(body)) EXCEPT !.errors = TRUE]
               [] OTHER -> NextEvent(Tail(body))

(***************************************************************************)
(* ConversationUseCases._handle_command                                    *)
(***************************************************************************)

CalendarFailure(reason) == <<"Kon de afspraak niet maken: ", reason>>
ReminderFailure(reason) == <<"Kon de herinnering niet maken: ", reason>>
TaskFailure(reason)     == <<"Kon de taak niet maken: ", reason>>
TaskTitleEmpty          == <<"Taak titel kan niet leeg zijn.">>
NoteStub                == <<"Notitie functie wordt geactiveerd. Wat wil je noteren?">>
ScanStub                == <<"Scan functie wordt geactiveerd. Upload een document om te scannen.">>

NoRow == [user_id |-> "", title |-> <<>>]

\* an outcome of _handle_command: the text returned or the exception raised,
\* the task or event created on the way, and what went wrong inside
Outcome(raised, text, fault, adapter_calls, task, seq, event) ==
    [raised |-> raised, text |-> text, fault |-> fault, adapter_calls |-> adapter_calls,
     task |-> task, seq |-> seq, event |-> event]

Reply(text, fault) == Outcome("", text, fault, 0, NoRow, task_number_seq, NoRow)

\* params.get(key, default)
Get(params, key, default) == IF key \in DOMAIN params THEN params[key] ELSE default

\* HELP branch: with a topic the temporary object's get_help_text is a
\* zero-argument lambda called as a bound method, which raises TypeError
HandleHelp(parsed) ==
    IF parsed.parameters["topic"] # "None"
    THEN { Outcome("TypeError", <<>>, "", 0, NoRow, task_number_seq, NoRow) }
    ELSE { Reply(GetHelpText(parsed.command_type), "") }

\* a task number taken from the rows of the table instead of the sequence
NextValFromRows(seq) == Len(tasks) + 1

\* nextval('task_number_seq'): the database hands out the value after the
\* last one, in one atomic step, and never takes a value back
NextVal(seq) == seq + 1

\* TASK branch: TaskUseCases.create_task either stores the task under the
\* next value of task_number_seq or raises; the sequence value drawn by a
\* failed insert is not given back
HandleTask(parsed, u) ==
    LET params == parsed.parameters
        title  == IF Get(params, "title", <<>>) # <<>> THEN params["title"] ELSE parsed.command_text
        number == NextVal(task_number_seq)
        task   == [user_id |-> u, title |-> title, task_number |-> number,
                   delegated_to_name |-> Get(params, "delegated_to", NoneText),
                   due_date |-> Get(params, "due_date", NoneText),
                   priority |-> Get(params, "priority", <<"m","e","d","i","u","m">>),
                   tags |-> Get(params, "tags", <<>>)]
    IN  IF title = <<>> \/ Strip(title) = <<>>
        THEN { Reply(TaskTitleEmpty, "validation") }
        ELSE { Outcome("", <<"Taak aangemaakt!", ToString(number)>> \o title, "", 1, task, number, NoRow) }
             \cup { Outcome("", TaskFailure("create_task"), "adapter", 1, NoRow, n, NoRow) :
                       n \in {task_number_seq, number} }

\* create_event without the check of the times in CalendarEvent.create
CreateEventNoTimeCheck(u, title, start_time, end_time, fail) ==
    LET provider == primary_calendar_provider[u]
    IN  IF provider = "None" THEN [ok |-> FALSE, fault |-> "adapter", reason |-> "No provider", event |-> NoRow]
        ELSE IF Strip(title) = <<>> THEN [ok |-> FALSE, fault |-> "validation", reason |-> "Event title cannot be empty", event |-> NoRow]
        ELSE IF provider \notin {"google", "microsoft"} THEN [ok |-> FALSE, fault |-> "validation", reason |-> "Invalid provider", event |-> NoRow]
        ELSE IF fail THEN [ok |-> FALSE, fault |-> "adapter", reason |-> "provider", event |-> NoRow]
        ELSE [ok |-> TRUE, fault |-> "", reason |-> "",
              event |-> [user_id |-> u, title |-> Strip(title), start_time |-> start_time,
                         end_time |-> end_time, provider |-> provider]]

\* CalendarEventUseCases.create_event as called from the chat: the primary
\* provider, the validation of CalendarEvent.create, then the token refresh
\* and the provider call, which either succeed or raise
CreateEvent(u, title, start_time, end_time, fail) ==
    LET provider == primary_calendar_provider[u]
    IN  IF provider = "None" THEN [ok |-> FALSE, fault |-> "adapter", reason |-> "No provider", event |-> NoRow]
        ELSE IF Strip(title) = <<>> THEN [ok |-> FALSE, fault |-> "validation", reason |-> "Event title cannot be empty", event |-> NoRow]
        ELSE IF end_time <= start_time THEN [ok |-> FALSE, fault |-> "validation", reason |-> "End time must be after start time", event |-> NoRow]
        ELSE IF provider \notin {"google", "microsoft"} THEN [ok |-> FALSE, fault |-> "validation", reason |-> "Invalid provider", event |-> NoRow]
        ELSE IF fail THEN [ok |-> FALSE, fault |-> "adapter", reason |-> "provider", event |-> NoRow]
        ELSE [ok |-> TRUE, fault |-> "", reason |-> "",
              event |-> [user_id |-> u, title |-> Strip(title), start_time |-> start_time,
                         end_time |-> end_time, provider |-> provider]]

\* the failure text of the CALENDAR and of the REMINDER branch
ExtractionFailure(command_type, reason) ==
    IF command_type = "calendar" THEN CalendarFailure(reason) ELSE ReminderFailure(reason)

\* create_event called with the end_time of the response also for a reminder
EventRequestKeepingEnd(command_type, r) ==
    [title      |-> IF command_type = "reminder" THEN ReminderPrefix \o r.title ELSE r.title,
     start_time |-> r.start_time,
     end_time   |-> r.end_time]

\* the arguments of create_event: a CALENDAR command passes the fields of the
\* response on, a REMINDER prefixes the title and ends 5 minutes after the start
EventRequest(command_type, r) ==
    [title      |-> IF command_type = "reminder" THEN ReminderPrefix \o r.title ELSE r.title,
     start_time |-> r.start_time,
     end_time   |-> IF command_type = "reminder" THEN r.start_time + ReminderMinutes ELSE r.end_time]

\* CALENDAR and REMINDER branches after the LLM call returned r: json.loads,
\* the date parsing, the required fields, create_event; every exception
\* becomes the failure text
HandleExtracted(command_type, u, r, fail) ==
    LET Failure(reason) == ExtractionFailure(command_type, reason)
        args     == EventRequest(command_type, r)
        created  == CreateEvent(u, args.title, args.start_time, args.end_time, fail)
    IN  IF ~r.json THEN Reply(Failure("JSONDecodeError"), "json")
        ELSE IF r.start_time = Missing THEN Reply(Failure("KeyError start_time"), "field")
        ELSE IF r.start_time = BadDate THEN Reply(Failure("ValueError"), "date")
        ELSE IF command_type = "calendar" /\ r.end_time = Missing THEN Reply(Failure("KeyError end_time"), "field")
        ELSE IF command_type = "calendar" /\ r.end_time = BadDate THEN Reply(Failure("ValueError"), "date")
        ELSE IF r.title = NoneText THEN Reply(Failure("KeyError title"), "field")
        ELSE IF ~created.ok THEN Outcome("", Failure(created.reason), created.fault, 1, NoRow, task_number_seq, NoRow)
        ELSE Outcome("", <<IF command_type = "calendar" THEN "Agenda-afspraak aangemaakt!" ELSE "Herinnering aangemaakt!">>
                         \o r.title \o <<ToString(r.start_time)>>,
                     "", 1, NoRow, task_number_seq, created.event)

\* the branches without the except clause around the LLM call
HandleExtractionRaising(command_type, u, llm_ok, r, fail) ==
    IF ~llm_ok THEN Outcome("LLMError", <<>>, "llm", 0, NoRow, task_number_seq, NoRow)
    ELSE HandleExtracted(command_type, u, r, fail)

\* CALENDAR and REMINDER branches from the return of the LLM call: the call
\* returned r (llm_ok) or raised, which the branch's except clause turns
\* into the failure text
HandleExtraction(command_type, u, llm_ok, r, fail) ==
    IF ~llm_ok THEN Reply(ExtractionFailure(command_type, "LLMError"), "llm")
    ELSE HandleExtracted(command_type, u, r, fail)

\* the branches of _handle_command that run without awaiting
HandleCommandSync(parsed, u) ==
    CASE parsed.command_type = "help" -> HandleHelp(parsed)
      [] parsed.command_type = "task" -> HandleTask(parsed, u)
      [] parsed.command_type = "note" -> { Reply(NoteStub \o GetHelpText("note"), "") }
      [] parsed.command_type = "scan" -> { Reply(ScanStub \o GetHelpText("scan"), "") }
      [] OTHER -> { Reply(UnknownCommandText, "") }


(***************************************************************************)
(* ConversationUseCases: the operations                                    *)
(***************************************************************************)

\* create_conversation: Conversation.create supplies the default title
CreateConversation(u, mode, title) ==
    /\ nextConv <= MaxConvs
    /\ conversations' = [conversations EXCEPT ![nextConv] =
           [state |-> "live", user_id |-> u,
            title |-> IF title = NoneText THEN DefaultTitle ELSE title,
            mode |-> mode, deleted_by |-> ""]]
    /\ nextConv' = nextConv + 1
    /\ UNCHANGED <<messages, requests, nsends, tasks, task_number_seq, events,
                   primary_calendar_provider,
                   oauth_tokens, transactions_store, logged>>

\* delete_conversation: the ownership check, then the row and, by cascade,
\* its messages
DeleteConversation(u, c) ==
    /\ GetConversation(c, u)
    /\ conversations' = [conversations EXCEPT ![c] = [NoConversation EXCEPT !.state = "deleted", !.user_id = conversations[c].user_id, !.deleted_by = u]]
    /\ messages' = [messages EXCEPT ![c] = <<>>]
    /\ UNCHANGED <<nextConv, requests, nsends, tasks, task_number_seq, events,
                   primary_calendar_provider,
                   oauth_tokens, transactions_store, logged>>

\* the effects of an outcome of _handle_command on the task and calendar stores
ApplyOutcome(o) ==
    /\ tasks' = IF o.task.user_id # "" THEN Append(tasks, o.task) ELSE tasks
    /\ task_number_seq' = o.seq
    /\ events' = IF o.event.user_id # "" THEN Append(events, o.event) ELSE events

\* the request after _handle_command, with the user message in the same
\* transaction as the reply: an exception of the dispatch rolls it back
FinishRollback(p, req, o, msgs) ==
    IF o.raised # "" \/ ~Exists(req.conversation_id)
    THEN /\ requests' = [requests EXCEPT ![p] =
                [req EXCEPT !.pc = "failed",
                            !.error = IF o.raised # "" THEN o.raised ELSE "IntegrityError",
                            !.adapter_calls = o.adapter_calls, !.fault = o.fault]]
         /\ messages' = messages
    ELSE /\ messages' = AddMessage(msgs, req.conversation_id, "assistant", o.text, EmptyMeta, req.call)
         /\ requests' = [requests EXCEPT ![p] =
                [req EXCEPT !.pc = IF req.op = "stream" THEN "yielded" ELSE "done",
                            !.result = o.text,
                            !.full_response = o.text,
                            !.chunks = IF req.op = "stream" THEN <<o.text>> ELSE <<>>,
                            !.adapter_calls = o.adapter_calls, !.fault = o.fault]]

\* The request after _handle_command returned o.text or raised: the buffered
\* send stores the reply and returns it, the streaming send stores it and
\* yields it as its only chunk.  The insert fails when the conversation row
\* is gone.  msgs is the message table the reply is added to.
Finish(p, req, o, msgs) ==
    IF o.raised # ""
    THEN /\ requests' = [requests EXCEPT ![p] = [req EXCEPT !.pc = "failed", !.error = o.raised,
                                                  !.adapter_calls = o.adapter_calls, !.fault = o.fault]]
         /\ messages' = msgs
    ELSE IF ~Exists(req.conversation_id)
    THEN /\ requests' = [requests EXCEPT ![p] = [req EXCEPT !.pc = "failed", !.error = "IntegrityError",
                                                  !.adapter_calls = o.adapter_calls, !.fault = o.fault]]
         /\ messages' = msgs
    ELSE /\ messages' = AddMessage(msgs, req.conversation_id, "assistant", o.text, EmptyMeta, req.call)
         /\ requests' = [requests EXCEPT ![p] =
                [req EXCEPT !.pc = IF req.op = "stream" THEN "yielded" ELSE "done",
                            !.result = o.text,
                            !.full_response = o.text,
                            !.chunks = IF req.op = "stream" THEN <<o.text>> ELSE <<>>,
                            !.adapter_calls = o.adapter_calls, !.fault = o.fault]]

\* send_message / send_message_stream up to the first await: the lookup, the
\* parse, the user message, then the dispatch.  The buffered send keeps the
\* conversation entity loaded before the user message was stored, the
\* streaming send reloads it.
Begin(p, u, c, content, op) ==
    /\ requests[p].pc = "idle"
    /\ UNCHANGED <<conversations, nextConv, primary_calendar_provider,
                   oauth_tokens, transactions_store, logged>>
    /\ LET call     == nsends + 1
           parsed   == ParsedContent[content]
           meta     == UserMeta(parsed)
           withUser == AddMessage(messages, c, "user", content, meta, call)
           req      == [IdleRequest EXCEPT !.op = op, !.conversation_id = c, !.user_id = u,
                                           !.content = content, !.call = call]
           saved    == [req EXCEPT !.user_saved = TRUE,
                                   !.snapshot = IF op = "stream" THEN withUser[c] ELSE messages[c]]
       IN  IF ~GetConversation(c, u)
           THEN /\ requests' = [requests EXCEPT ![p] = [req EXCEPT !.pc = "failed", !.error = "NotFound"]]
                /\ UNCHANGED <<messages, nsends, tasks, task_number_seq, events>>
           ELSE \/ /\ ~JsonSerializable(meta)
                   /\ requests' = [requests EXCEPT ![p] = [req EXCEPT !.pc = "failed", !.error = "StatementError"]]
                   /\ UNCHANGED <<messages, nsends, tasks, task_number_seq, events>>
                \/ /\ IsCommand(parsed)
                   /\ parsed.command_type \in {"calendar", "reminder"}
                   /\ requests' = [requests EXCEPT ![p] = [saved EXCEPT !.pc = "cmd_llm", !.llm_calls = 1]]
                   /\ messages' = withUser
                   /\ nsends' = call
                   /\ UNCHANGED <<tasks, task_number_seq, events>>
                \/ /\ IsCommand(parsed)
                   /\ parsed.command_type \notin {"calendar", "reminder"}
                   /\ nsends' = call
                   /\ \E o \in HandleCommandSync(parsed, u) :
                         /\ Finish(p, saved, o, withUser)
                         /\ ApplyOutcome(o)
                \/ /\ ~IsCommand(parsed)
                   /\ requests' = [requests EXCEPT ![p] =
                          [saved EXCEPT !.pc = IF op = "stream" THEN "streaming" ELSE "chat_llm",
                                        !.llm_calls = 1]]
                   /\ messages' = withUser
                   /\ nsends' = call
                   /\ UNCHANGED <<tasks, task_number_seq, events>>

SendMessage(p, u, c, content) == Begin(p, u, c, content, "send")

SendMessageStream(p, u, c, content) == Begin(p, u, c, content, "stream")

\* the extraction call of a CALENDAR or REMINDER command returns or raises;
\* _handle_command runs to its end and the reply is stored
CommandLlmReturn(p) ==
    /\ requests[p].pc = "cmd_llm"
    /\ \E llm_ok \in BOOLEAN, r \in ExtractionResponses, fail \in BOOLEAN :
          LET command_type == ParsedContent[requests[p].content].command_type
              o   == HandleExtraction(command_type, requests[p].user_id, llm_ok, r, fail)
              req == [requests[p] EXCEPT
                         !.extracted = IF llm_ok THEN r ELSE NoExtraction,
                         !.event_request = IF o.adapter_calls = 1 THEN EventRequest(command_type, r)
                                           ELSE NoEventRequest]
          IN  /\ Finish(p, req, o, messages)
              /\ ApplyOutcome(o)
    /\ UNCHANGED <<conversations, nextConv, nsends, primary_calendar_provider,
                   oauth_tokens, transactions_store, logged>>

\* _get_ai_response: the completion returns its text or raises
ChatLlmReturn(p) ==
    /\ requests[p].pc = "chat_llm"
    /\ \/ requests' = [requests EXCEPT ![p].pc = "failed", ![p].error = "LLMError"]
          /\ UNCHANGED messages
       \/ \E text \in ChatReplies :
             Finish(p, requests[p], Reply(text, ""), messages)
    /\ UNCHANGED <<conversations, nextConv, nsends, tasks, task_number_seq, events,
                   primary_calendar_provider,
                   oauth_tokens, transactions_store, logged>>

\* the streaming send storing the reply of a command a second time when
\* its consumer comes back for the next chunk
StreamResumeStoringAgain(p) ==
    /\ requests[p].op = "stream"
    /\ requests[p].pc \in {"streaming", "yielded"}
    /\ IsCommand(ParsedContent[requests[p].content])
    /\ requests' = [requests EXCEPT ![p].pc = "done"]
    /\ messages' = AddMessage(messages, requests[p].conversation_id, "assistant",
                              requests[p].full_response, EmptyMeta, requests[p].call)
    /\ UNCHANGED <<conversations, nextConv, nsends, tasks, task_number_seq, events,
                   primary_calendar_provider,
                   oauth_tokens, transactions_store, logged>>

\* The consumer asks the streaming send for its next chunk.  After the
\* reply of a command the generator ends.  In plain chat the loop over the
\* LLM stream runs to the next chunk, which is added to full_response and
\* yielded; at the end of the stream the whole response is stored; an
\* exception of the stream leaves the generator.
StreamResume(p) ==
    /\ requests[p].op = "stream"
    /\ requests[p].pc \in {"streaming", "yielded"}
    /\ LET req == requests[p]
       IN  IF IsCommand(ParsedContent[req.content])
           THEN /\ requests' = [requests EXCEPT ![p].pc = "done"]
                /\ UNCHANGED messages
           ELSE \E body \in (IF req.pc = "streaming" THEN StreamBodies ELSE {req.body}) :
                   LET ev    == NextEvent(body)
                       fault == IF ev.errors THEN "llm" ELSE req.fault
                   IN  CASE ev.kind = "chunk" ->
                              /\ requests' = [requests EXCEPT ![p] =
                                     [req EXCEPT !.pc = "yielded", !.fault = fault,
                                                 !.full_response = req.full_response \o ev.text,
                                                 !.chunks = Append(req.chunks, ev.text),
                                                 !.body = ev.rest]]
                              /\ UNCHANGED messages
                         [] ev.kind = "raise" ->
                              /\ requests' = [requests EXCEPT ![p].pc = "failed", ![p].error = "LLMError"]
                              /\ UNCHANGED messages
                         [] OTHER ->
                              IF Exists(req.conversation_id)
                              THEN /\ messages' = AddMessage(messages, req.conversation_id, "assistant",
                                                             req.full_response, EmptyMeta, req.call)
                                   /\ requests' = [requests EXCEPT ![p].pc = "done", ![p].fault = fault,
                                                                   ![p].result = req.full_response]
                              ELSE /\ requests' = [requests EXCEPT ![p].pc = "failed", ![p].fault = fault,
                                                                   ![p].error = "IntegrityError"]
                                   /\ UNCHANGED messages
    /\ UNCHANGED <<conversations, nextConv, nsends, tasks, task_number_seq, events,
                   primary_calendar_provider,
                   oauth_tokens, transactions_store, logged>>

\* the generator closed by its consumer, with the storing of the response
\* in a finally clause
StreamCancelSaving(p) ==
    /\ requests[p].op = "stream"
    /\ requests[p].pc \in {"cmd_llm", "streaming", "yielded"}
    /\ requests' = [requests EXCEPT ![p].pc = "cancelled", ![p].error = "Cancelled"]
    /\ messages' = IF Exists(requests[p].conversation_id) /\ ~IsCommand(ParsedContent[requests[p].content])
                   THEN AddMessage(messages, requests[p].conversation_id, "assistant",
                                   requests[p].full_response, EmptyMeta, requests[p].call)
                   ELSE messages
    /\ UNCHANGED <<conversations, nextConv, nsends, tasks, task_number_seq,
                   events, primary_calendar_provider,
                   oauth_tokens, transactions_store, logged>>

\* the consumer of a streaming send goes away: the generator is closed where
\* it is suspended and nothing more of it runs
StreamCancel(p) ==
    /\ requests[p].op = "stream"
    /\ requests[p].pc \in {"cmd_llm", "streaming", "yielded"}
    /\ requests' = [requests EXCEPT ![p].pc = "cancelled", ![p].error = "Cancelled"]
    /\ UNCHANGED <<conversations, messages, nextConv, nsends, tasks, task_number_seq,
                   events, primary_calendar_provider,
                   oauth_tokens, transactions_store, logged>>


\* the context window of a plain-chat LLM call
MaxMessages == 50

\* Conversation.get_messages_for_claude(max_messages): the most recent
\* max_messages messages of the entity, oldest first, as role and content
GetMessagesForClaude(msgs, max_messages) ==
    LET n     == Len(msgs)
        first == IF n > max_messages THEN n - max_messages + 1 ELSE 1
    IN  [i \in 1..(n - first + 1) |->
            [role |-> msgs[first + i - 1].role, content |-> msgs[first + i - 1].content]]

\* generate_title, success path: the text of the response stripped of
\* whitespace and of surrounding quotes, cut to 50 characters
CleanTitle(text) ==
    LET t == StripChars(StripChars(Strip(text), {"\""}), {"'"})
    IN  IF Len(t) > TitleMaxLen THEN Strip(Take(t, TitleMaxLen)) ELSE t

\* the preview without the cut to 30 characters
FallbackTitleUncut(msgs) ==
    LET users == {i \in 1..Len(msgs) : msgs[i].role = "user"}
    IN  IF users = {} THEN DefaultTitle
        ELSE LET first == msgs[CHOOSE i \in users : \A j \in users : i <= j].content
             IN  Strip(first) \o (IF Len(first) > FallbackLen THEN <<".",".",".">> ELSE <<>>)

\* generate_title, except path: the preview of the first user message
FallbackTitle(msgs) ==
    LET users == {i \in 1..Len(msgs) : msgs[i].role = "user"}
    IN  IF users = {} THEN DefaultTitle
        ELSE LET first == msgs[CHOOSE i \in users : \A j \in users : i <= j].content
             IN  Strip(Take(first, FallbackLen)) \o (IF Len(first) > FallbackLen THEN <<".",".",".">> ELSE <<>>)

\* generate_title up to the await of the LLM call
GenerateTitle(p, u, c) ==
    /\ requests[p].pc = "idle"
    /\ LET req == [IdleRequest EXCEPT !.op = "title", !.conversation_id = c, !.user_id = u]
       IN  requests' = [requests EXCEPT ![p] =
               IF ~GetConversation(c, u) THEN [req EXCEPT !.pc = "failed", !.error = "NotFound"]
               ELSE IF messages[c] = <<>> THEN [req EXCEPT !.pc = "done", !.result = DefaultTitle]
               ELSE [req EXCEPT !.pc = "title_llm", !.snapshot = messages[c], !.llm_calls = 1]]
    /\ UNCHANGED <<conversations, messages, nextConv, nsends, tasks, task_number_seq, events,
                   primary_calendar_provider,
                   oauth_tokens, transactions_store, logged>>

\* generate_title storing the fallback text as the title when the LLM call raises
TitleLlmAnswerStoringFallback(p, texts) ==
    /\ requests[p].pc = "title_llm"
    /\ \/ /\ requests' = [requests EXCEPT ![p].pc = "done", ![p].fault = "llm",
                                          ![p].result = FallbackTitle(requests[p].snapshot)]
          /\ conversations' =
                 IF Exists(requests[p].conversation_id)
                 THEN [conversations EXCEPT ![requests[p].conversation_id].title =
                          FallbackTitle(requests[p].snapshot)]
                 ELSE conversations
       \/ \E text \in texts :
             /\ requests' = [requests EXCEPT ![p].pc = "done", ![p].result = CleanTitle(text)]
             /\ conversations' =
                    IF Exists(requests[p].conversation_id)
                    THEN [conversations EXCEPT ![requests[p].conversation_id].title = CleanTitle(text)]
                    ELSE conversations
    /\ UNCHANGED <<messages, nextConv, nsends, tasks, task_number_seq, events,
                   primary_calendar_provider,
                   oauth_tokens, transactions_store, logged>>

\* the LLM call of generate_title returns one of the texts or raises;
\* update_conversation changes the title of the row when the row is still there
TitleLlmAnswer(p, texts) ==
    /\ requests[p].pc = "title_llm"
    /\ \/ /\ requests' = [requests EXCEPT ![p].pc = "done", ![p].fault = "llm",
                                          ![p].result = FallbackTitle(requests[p].snapshot)]
          /\ UNCHANGED conversations
       \/ \E text \in texts :
             /\ requests' = [requests EXCEPT ![p].pc = "done", ![p].result = CleanTitle(text)]
             /\ conversations' =
                    IF Exists(requests[p].conversation_id)
                    THEN [conversations EXCEPT ![requests[p].conversation_id].title = CleanTitle(text)]
                    ELSE conversations
    /\ UNCHANGED <<messages, nextConv, nsends, tasks, task_number_seq, events,
                   primary_calendar_provider,
                   oauth_tokens, transactions_store, logged>>

TitleLlmReturn(p) == TitleLlmAnswer(p, TitleReplies)

\* the request is over: its slot is free again
Return(p) ==
    /\ requests[p].pc \in {"done", "failed", "cancelled"}
    /\ requests' = [requests EXCEPT ![p] = IdleRequest]
    /\ UNCHANGED <<conversations, messages, nextConv, nsends, tasks, task_number_seq,
                   events, primary_calendar_provider,
                   oauth_tokens, transactions_store, logged>>

\* no request is in flight
Quiet == \A q \in Procs : requests[q].pc = "idle"

\* no request has ended without its slot being freed: the response of a
\* request that ended is sent before the event loop runs anything else
Settled == \A q \in Procs : requests[q].pc \notin {"done", "failed", "cancelled"}

\* a new request takes the first free slot
FreeSlot(p) == requests[p].pc = "idle" /\ \A q \in Procs : q < p => requests[q].pc # "idle"

\* Requests served one at a time: a request, a creation or a deletion starts
\* only when no other request is in flight.
Next ==
    \/ Quiet /\ \E u \in Users, mode \in Modes, title \in TitleInputs : CreateConversation(u, mode, title)
    \/ Quiet /\ \E u \in Users, c \in ConvIds : DeleteConversation(u, c)
    \/ Quiet /\ nsends < MaxSends
             /\ \E u \in Users, c \in ConvIds, content \in Contents : SendMessage(1, u, c, content)
    \/ Quiet /\ nsends < MaxSends
             /\ \E u \in Users, c \in ConvIds, content \in Contents : SendMessageStream(1, u, c, content)
    \/ \E p \in Procs : CommandLlmReturn(p)
    \/ \E p \in Procs : ChatLlmReturn(p)
    \/ \E p \in Procs : StreamResume(p)
    \/ \E p \in Procs : StreamCancel(p)
    \/ Quiet /\ \E u \in Users, c \in ConvIds : GenerateTitle(1, u, c)
    \/ \E p \in Procs : TitleLlmReturn(p)
    \/ \E p \in Procs : Return(p)

Spec == Init /\ [][Next]_vars

\* Conversations, buffered sends and title generations, served one at a
\* time, with the wider sets of contents and of title texts.
NextTitle ==
    \/ Quiet /\ \E u \in Users, mode \in Modes, title \in TitleInputs : CreateConversation(u, mode, title)
    \/ Quiet /\ nsends < MaxSends
             /\ \E u \in Users, c \in ConvIds, content \in TitleContents : SendMessage(1, u, c, content)
    \/ \E p \in Procs : ChatLlmReturn(p)
    \/ Quiet /\ \E u \in Users, c \in ConvIds : GenerateTitle(1, u, c)
    \/ \E p \in Procs : TitleLlmAnswer(p, TitleTexts)
    \/ \E p \in Procs : Return(p)

SpecTitle == Init /\ [][NextTitle]_vars

\* the command messages among the contents
CommandContents == {content \in Contents : IsCommand(ParsedContent[content])}

\* A command sent twice to a conversation by its user: by the buffered send,
\* and when that has finished by the streaming send.
NextPair ==
    \/ Quiet /\ \E u \in Users, mode \in Modes, title \in TitleInputs : CreateConversation(u, mode, title)
    \/ Quiet /\ nsends = 0
             /\ \E u \in Users, c \in ConvIds, content \in CommandContents : SendMessage(1, u, c, content)
    \/ /\ requests[1].op = "send"
       /\ requests[1].pc \in {"done", "failed"}
       /\ nsends < MaxConcSends
       /\ SendMessageStream(2, requests[1].user_id, requests[1].conversation_id, requests[1].content)
    \/ \E p \in Procs : CommandLlmReturn(p)
    \/ \E p \in Procs : StreamResume(p)
    \/ /\ \A p \in {1, 2} : requests[p].pc \in {"done", "failed"}
       /\ \E p \in Procs : Return(p)

SpecPair == Init /\ [][NextPair]_vars

(***************************************************************************)
(* The calendar router: POST /events and PUT /events/{event_id}.  The      *)
(* handlers read current_user.id, which fails when the dependency hands    *)
(* out a dict as its annotation says; both outcomes are kept.              *)
(***************************************************************************)

\* most events a user creates through the calendar API
MaxEvents == 2

\* EventCreateRequest and EventUpdateRequest: titles of at least one
\* character, start and end times in either order
EventTitles == { <<"T">>, <<" ">> }
EventStarts == { 10 }
EventEnds   == { 5, 10, 20 }

\* the request of a calendar endpoint in slot p after the use case returned
\* or raised
EventAnswered(p, op, u, title, start_time, end_time, created) ==
    requests' = [requests EXCEPT ![p] =
        [IdleRequest EXCEPT !.op = op, !.user_id = u,
                            !.pc = IF created.ok THEN "done" ELSE "failed",
                            !.error = IF created.ok THEN ""
                                      ELSE IF created.fault = "adapter" /\ created.reason = "provider"
                                      THEN "ProviderError" ELSE "ValueError",
                            !.fault = created.fault, !.adapter_calls = 1,
                            !.event_request = [title |-> title, start_time |-> start_time,
                                               end_time |-> end_time]]]

\* current_user.id raised: the use case is not called
EventRefused(p, op, u) ==
    /\ requests' = [requests EXCEPT ![p] =
           [IdleRequest EXCEPT !.op = op, !.user_id = u, !.pc = "failed", !.error = "AttributeError"]]
    /\ UNCHANGED events

\* POST /events
CreateEventRequest(p, u, title, start_time, end_time, fail) ==
    /\ requests[p].pc = "idle"
    /\ \/ EventRefused(p, "event_create", u)
       \/ LET created == CreateEvent(u, title, start_time, end_time, fail)
          IN  /\ EventAnswered(p, "event_create", u, title, start_time, end_time, created)
              /\ events' = IF created.ok THEN Append(events, created.event) ELSE events
    /\ UNCHANGED <<conversations, messages, nextConv, nsends, tasks, task_number_seq,
                   primary_calendar_provider,
                   oauth_tokens, transactions_store, logged>>

\* PUT /events/{event_id}: the event with this id at the provider is replaced
UpdateEventRequest(p, u, event_id, title, start_time, end_time, fail) ==
    /\ requests[p].pc = "idle"
    /\ \/ EventRefused(p, "event_update", u)
       \/ LET known   == event_id \in 1..Len(events) /\ events[event_id].user_id = u
              created == CreateEvent(u, title, start_time, end_time, fail \/ ~known)
          IN  /\ EventAnswered(p, "event_update", u, title, start_time, end_time, created)
              /\ events' = IF created.ok THEN [events EXCEPT ![event_id] = created.event] ELSE events
    /\ UNCHANGED <<conversations, messages, nextConv, nsends, tasks, task_number_seq,
                   primary_calendar_provider,
                   oauth_tokens, transactions_store, logged>>

\* the CALENDAR and the REMINDER command of the contents
CalendarContents ==
    {content \in Contents : ParsedContent[content].command_type \in {"calendar", "reminder"}}

NextCalendar ==
    \/ Quiet /\ \E u \in Users, mode \in Modes, title \in TitleInputs : CreateConversation(u, mode, title)
    \/ Quiet /\ nsends < MaxSends
             /\ \E u \in Users, c \in ConvIds, content \in CalendarContents : SendMessage(1, u, c, content)
    \/ \E p \in Procs : CommandLlmReturn(p)
    \/ Quiet /\ Len(events) < MaxEvents
             /\ \E u \in Users, title \in EventTitles, start_time \in EventStarts, end_time \in EventEnds,
                   fail \in BOOLEAN : CreateEventRequest(1, u, title, start_time, end_time, fail)
    \/ Quiet /\ \E u \in Users, event_id \in 1..MaxEvents, title \in EventTitles,
                   start_time \in EventStarts, end_time \in EventEnds, fail \in BOOLEAN :
                      UpdateEventRequest(1, u, event_id, title, start_time, end_time, fail)
    \/ \E p \in Procs : Return(p)

SpecCalendar == Init /\ [][NextCalendar]_vars

(***************************************************************************)
(* The conversation router: the endpoints that take a conversation id.     *)
(* An endpoint runs the use case inside a try whose except clauses turn a  *)
(* ValueError into 404 and any other exception into 500.                   *)
(***************************************************************************)

HTTP_200_OK == 200
HTTP_400_BAD_REQUEST == 400
HTTP_404_NOT_FOUND == 404
HTTP_500_INTERNAL_SERVER_ERROR == 500

\* GET /{conversation_id}: get_conversation returns the entity or None
GetConversationRequest(p, u, c) ==
    /\ requests[p].pc = "idle"
    /\ LET req == [IdleRequest EXCEPT !.op = "get", !.conversation_id = c, !.user_id = u]
       IN  requests' = [requests EXCEPT ![p] =
               IF ~GetConversation(c, u) THEN [req EXCEPT !.pc = "failed", !.error = "NotFound"]
               ELSE [req EXCEPT !.pc = "done", !.snapshot = messages[c]]]
    /\ UNCHANGED <<conversations, messages, nextConv, nsends, tasks, task_number_seq, events,
                   primary_calendar_provider,
                   oauth_tokens, transactions_store, logged>>

\* GET /{conversation_id}/messages: get_messages checks access, then reads
GetMessagesRequest(p, u, c) ==
    /\ requests[p].pc = "idle"
    /\ LET req == [IdleRequest EXCEPT !.op = "list", !.conversation_id = c, !.user_id = u]
       IN  requests' = [requests EXCEPT ![p] =
               IF ~GetConversation(c, u) THEN [req EXCEPT !.pc = "failed", !.error = "NotFound"]
               ELSE [req EXCEPT !.pc = "done", !.snapshot = messages[c]]]
    /\ UNCHANGED <<conversations, messages, nextConv, nsends, tasks, task_number_seq, events,
                   primary_calendar_provider,
                   oauth_tokens, transactions_store, logged>>

\* DELETE /{conversation_id}: delete_conversation checks access, then
\* deletes the row and, by cascade, its messages
DeleteConversationRequest(p, u, c) ==
    /\ requests[p].pc = "idle"
    /\ LET req == [IdleRequest EXCEPT !.op = "delete", !.conversation_id = c, !.user_id = u]
       IN  IF ~GetConversation(c, u)
           THEN /\ requests' = [requests EXCEPT ![p] = [req EXCEPT !.pc = "failed", !.error = "NotFound"]]
                /\ UNCHANGED <<conversations, messages>>
           ELSE /\ requests' = [requests EXCEPT ![p] = [req EXCEPT !.pc = "done"]]
                /\ conversations' = [conversations EXCEPT ![c] =
                       [NoConversation EXCEPT !.state = "deleted", !.user_id = conversations[c].user_id,
                                              !.deleted_by = u]]
                /\ messages' = [messages EXCEPT ![c] = <<>>]
    /\ UNCHANGED <<nextConv, nsends, tasks, task_number_seq, events, primary_calendar_provider,
                   oauth_tokens, transactions_store, logged>>

\* POST /{conversation_id}/messages: a body with stream set is refused
\* before the use case is called
SendMessageRequest(p, u, c, content, stream) ==
    IF stream
    THEN /\ requests[p].pc = "idle"
         /\ requests' = [requests EXCEPT ![p] =
                [IdleRequest EXCEPT !.op = "send", !.conversation_id = c, !.user_id = u,
                                    !.content = content, !.pc = "failed", !.error = "BadRequest"]]
         /\ UNCHANGED <<conversations, messages, nextConv, nsends, tasks, task_number_seq, events,
                        primary_calendar_provider,
                   oauth_tokens, transactions_store, logged>>
    ELSE SendMessage(p, u, c, content)

\* the exception that reaches the except clauses of the endpoint: the
\* use cases raise ValueError for a conversation they do not find, and
\* GET /{conversation_id} raises HTTPException(404) itself, inside its try
RaisedInTry(req) ==
    IF req.pc # "failed" THEN "None"
    ELSE IF req.error = "NotFound" THEN (IF req.op = "get" THEN "HTTPException" ELSE "ValueError")
    ELSE req.error

\* the status of the response to a finished request
StatusCode(req) ==
    IF req.error = "BadRequest" THEN HTTP_400_BAD_REQUEST
    ELSE IF req.op = "stream" THEN HTTP_200_OK
    ELSE IF RaisedInTry(req) = "None" THEN HTTP_200_OK
    ELSE IF RaisedInTry(req) = "ValueError" THEN HTTP_404_NOT_FOUND
    ELSE HTTP_500_INTERNAL_SERVER_ERROR

\* the server-sent events of POST /{conversation_id}/messages/stream
SseData(chunk) == <<"data: ">> \o chunk \o <<"\n\n">>

DoneEvent == SseData(<<"[", "D", "O", "N", "E", "]">>)

ErrorEvent(error) == <<"event: error\ndata: ", error, "\n\n">>

\* event_generator with the completion event sent in a finally clause
EventGeneratorDoneInFinally(req) ==
    [i \in 1..Len(req.chunks) |-> SseData(req.chunks[i])]
        \o (IF req.pc = "failed" THEN <<ErrorEvent(req.error)>> ELSE <<>>)
        \o (IF req.pc \in {"done", "failed"} THEN <<DoneEvent>> ELSE <<>>)

\* event_generator: what the response of a streaming send has carried so
\* far: one data event per chunk yielded by send_message_stream, the
\* completion event when that generator is exhausted, an error event when
\* it raised
EventGenerator(req) ==
    [i \in 1..Len(req.chunks) |-> SseData(req.chunks[i])]
        \o (IF req.pc = "done" THEN <<DoneEvent>>
            ELSE IF req.pc = "failed" THEN <<ErrorEvent(req.error)>>
            ELSE <<>>)

\* the texts sent in the runs of the router
HttpContents == { <<"h","i">> }

NextHttp ==
    \/ Quiet /\ \E u \in Users, mode \in Modes, title \in TitleInputs : CreateConversation(u, mode, title)
    \/ Quiet /\ \E u \in Users, c \in ConvIds : GetConversationRequest(1, u, c)
    \/ Quiet /\ \E u \in Users, c \in ConvIds : GetMessagesRequest(1, u, c)
    \/ Quiet /\ \E u \in Users, c \in ConvIds : DeleteConversationRequest(1, u, c)
    \/ Quiet /\ nsends < MaxSends
             /\ \E u \in Users, c \in ConvIds, content \in HttpContents, stream \in BOOLEAN :
                    SendMessageRequest(1, u, c, content, stream)
    \/ Quiet /\ nsends < MaxSends
             /\ \E u \in Users, c \in ConvIds, content \in HttpContents : SendMessageStream(1, u, c, content)
    \/ \E p \in Procs : ChatLlmReturn(p)
    \/ \E p \in Procs : StreamResume(p)
    \/ \E p \in Procs : StreamCancel(p)
    \/ Quiet /\ \E u \in Users, c \in ConvIds : GenerateTitle(1, u, c)
    \/ \E p \in Procs : TitleLlmReturn(p)
    \/ \E p \in Procs : Return(p)

SpecHttp == Init /\ [][NextHttp]_vars

(***************************************************************************)
(* CommandParser.parse as a function of its text: the texts are drawn in   *)
(* the initial state and parse is applied to them.                         *)
(***************************************************************************)

\* most words of a text
MaxWords == 3

\* words of the texts: nothing (which doubles a space or puts one at an end
\* of the text), the prefix alone, prefixed keywords in and outside the
\* table, plain words
GeneralWords ==
    { <<>>, <<"#">>, <<"#","f","o","o">>, <<"#","S","C","A","N">>, <<"#","t","a","s","k">>,
      <<"h","i">>, <<"b","o","n">> }

\* words after "#task": nothing, title words, the four fragments, a tag
\* list after the singular keyword
TaskWords ==
    { <<>>, <<"x">>, <<"R">>, <<"@","b","o","b">>,
      <<"p","r","i","o","r","i","t","y"," ","h","i","g","h">>,
      <<"d","e","a","d","l","i","n","e"," ","f","r","i">>,
      <<"t","a","g","s"," ","a",",","b">>,
      <<"t","a","g"," ","a">> }

\* the words joined by single spaces
RECURSIVE JoinWords(_)
JoinWords(ws) ==
    IF ws = <<>> THEN <<>>
    ELSE IF Len(ws) = 1 THEN ws[1]
    ELSE ws[1] \o <<" ">> \o JoinWords(Tail(ws))

WordSeqs(words) == UNION { [1..k -> words] : k \in 0..MaxWords }

TaskPrefix == <<"#","t","a","s","k"," ">>

ParseTexts ==
    { JoinWords(ws) : ws \in WordSeqs(GeneralWords) }
        \cup { TaskPrefix \o JoinWords(ws) : ws \in WordSeqs(TaskWords) }

InitParse ==
    /\ conversations = [c \in ConvIds |-> NoConversation]
    /\ messages = [c \in ConvIds |-> <<>>]
    /\ nextConv = 1
    /\ \E text \in ParseTexts :
          requests = [p \in Procs |->
                         IF p = 1 THEN [IdleRequest EXCEPT !.op = "parse", !.pc = "parse", !.content = text]
                         ELSE IdleRequest]
    /\ nsends = 0
    /\ tasks = <<>>
    /\ task_number_seq = 0
    /\ events = <<>>
    /\ primary_calendar_provider = [u \in Users |-> IF u = "u1" THEN "google" ELSE "None"]
    /\ oauth_tokens = [u \in Users |-> [provider \in Providers |->
                          IF u = "u1" /\ provider = "google" THEN "a1" ELSE "None"]]
    /\ transactions_store = <<>>
    /\ logged = [count |-> 0, cleared |-> 0]

\* CommandParser.parse(text)
ParseText(p) ==
    /\ requests[p].pc = "parse"
    /\ requests' = [requests EXCEPT ![p].pc = "done", ![p].parsed = Parse(requests[p].content)]
    /\ UNCHANGED <<conversations, messages, nextConv, nsends, tasks, task_number_seq, events,
                   primary_calendar_provider,
                   oauth_tokens, transactions_store, logged>>

NextParse == \E p \in Procs : ParseText(p)

SpecParse == InitParse /\ [][NextParse]_vars

(***************************************************************************)
(* TaskRepository.create_task at the level of the database: the task API   *)
(* runs in worker threads, so the INSERT and the COMMIT of one creation    *)
(* interleave with those of others.                                        *)
(***************************************************************************)

\* task creations started in one run
MaxTaskOps == 3

\* where a creation comes from: the task API or a TASK command of the chat
TaskSources == {"task_api", "task_chat"}

\* db.add(task) and the INSERT of the flush: the row takes the next value of
\* task_number_seq; the statement may fail before it gets that far
TaskInsert(p, u, src) ==
    /\ requests[p].pc = "idle"
    /\ \/ /\ requests' = [requests EXCEPT ![p] =
                  [IdleRequest EXCEPT !.op = src, !.pc = "task_commit", !.user_id = u,
                                      !.adapter_calls = 1,
                                      !.task_number = NextVal(task_number_seq)]]
          /\ task_number_seq' = NextVal(task_number_seq)
       \/ /\ requests' = [requests EXCEPT ![p] =
                  [IdleRequest EXCEPT !.op = src, !.pc = "failed", !.user_id = u,
                                      !.adapter_calls = 1, !.error = "DBError", !.fault = "adapter"]]
          /\ UNCHANGED task_number_seq
    /\ UNCHANGED <<conversations, messages, nextConv, nsends, tasks, events,
                   primary_calendar_provider,
                   oauth_tokens, transactions_store, logged>>

\* db.commit(): the row becomes visible unless the unique constraint on
\* task_number or anything else makes the transaction fail; the value drawn
\* from the sequence is not given back
TaskCommit(p) ==
    /\ requests[p].pc = "task_commit"
    /\ \/ /\ \A i \in 1..Len(tasks) : tasks[i].task_number # requests[p].task_number
          /\ tasks' = Append(tasks, [user_id |-> requests[p].user_id, title |-> <<"T">>,
                                     task_number |-> requests[p].task_number,
                                     delegated_to_name |-> NoneText, due_date |-> NoneText,
                                     priority |-> <<"m","e","d","i","u","m">>, tags |-> <<>>])
          /\ requests' = [requests EXCEPT ![p].pc = "done"]
       \/ /\ requests' = [requests EXCEPT ![p].pc = "failed", ![p].error = "DBError",
                                          ![p].fault = "adapter"]
          /\ UNCHANGED tasks
    /\ UNCHANGED <<conversations, messages, nextConv, nsends, task_number_seq, events,
                   primary_calendar_provider,
                   oauth_tokens, transactions_store, logged>>

\* Task creations interleaved at the database.
NextTasks ==
    \/ task_number_seq < MaxTaskOps
          /\ \E p \in Procs, u \in Users, src \in TaskSources : FreeSlot(p) /\ TaskInsert(p, u, src)
    \/ \E p \in Procs : TaskCommit(p)
    \/ \E p \in Procs : Return(p)

SpecTasks == Init /\ [][NextTasks]_vars

\* contents sent in the concurrent runs: plain chat, which awaits the LLM,
\* and a command that does not
ConcContents ==
    { <<"h","i">>,
      <<"#","h","e","l","p">> }

\* Requests interleaved on the event loop: a request, a creation or a
\* deletion may start while other requests wait for the LLM or for the
\* consumer of their stream.
NextConc ==
    \/ Settled /\ \E u \in Users, mode \in Modes, title \in TitleInputs : CreateConversation(u, mode, title)
    \/ Settled /\ \E u \in Users, c \in ConvIds : DeleteConversation(u, c)
    \/ Settled /\ nsends < MaxConcSends
          /\ \E p \in Procs, u \in Users, c \in ConvIds, content \in ConcContents :
                FreeSlot(p) /\ SendMessage(p, u, c, content)
    \/ Settled /\ nsends < MaxConcSends
          /\ \E p \in Procs, u \in Users, c \in ConvIds, content \in ConcContents :
                FreeSlot(p) /\ SendMessageStream(p, u, c, content)
    \/ Settled /\ \E p \in Procs : ChatLlmReturn(p)
    \/ Settled /\ \E p \in Procs : StreamResume(p)
    \/ Settled /\ \E p \in Procs : StreamCancel(p)
    \/ Settled /\ \E p \in Procs, u \in Users, c \in ConvIds : FreeSlot(p) /\ GenerateTitle(p, u, c)
    \/ Settled /\ \E p \in Procs : TitleLlmReturn(p)
    \/ \E p \in Procs : Return(p)

SpecConc == Init /\ [][NextConc]_vars

(***************************************************************************)
(* CalendarOAuthUseCases: the device-flow poll that stores a token and the *)
(* disconnect of a provider.  Nothing of a poll touches the tables before  *)
(* its await on the provider has returned, and disconnect_provider does    *)
(* not await, so each is one step.                                         *)
(***************************************************************************)

\* poll_google_oauth_token / poll_microsoft_oauth_token: token_data is what
\* poll_for_token returned, "None" while the user has not authorized yet
PollOAuthToken(p, u, provider, set_as_primary, token_data) ==
    /\ requests[p].pc = "idle"
    /\ requests' = [requests EXCEPT ![p] =
           [IdleRequest EXCEPT !.op = "oauth_poll", !.user_id = u, !.content = <<provider>>,
                               !.pc = "done", !.adapter_calls = 1,
                               !.result = IF token_data = "None" THEN NoneText ELSE <<"success">>]]
    /\ oauth_tokens' = IF token_data = "None" THEN oauth_tokens
                       ELSE [oauth_tokens EXCEPT ![u][provider] = token_data]
    /\ primary_calendar_provider' =
           IF token_data # "None" /\ set_as_primary
           THEN [primary_calendar_provider EXCEPT ![u] = provider]
           ELSE primary_calendar_provider
    /\ UNCHANGED <<conversations, messages, nextConv, nsends, tasks, task_number_seq, events,
                   transactions_store, logged>>

\* disconnect_provider that deletes the token and leaves the settings alone
DisconnectProviderKeepingPrimary(p, u, provider) ==
    /\ requests[p].pc = "idle"
    /\ LET deleted == oauth_tokens[u][provider] # "None"
       IN  /\ requests' = [requests EXCEPT ![p] =
                  [IdleRequest EXCEPT !.op = "oauth_disconnect", !.user_id = u,
                                      !.content = <<provider>>,
                                      !.snapshot = <<primary_calendar_provider[u]>>,
                                      !.pc = IF deleted THEN "done" ELSE "failed",
                                      !.error = IF deleted THEN "" ELSE "ValueError"]]
           /\ oauth_tokens' = [oauth_tokens EXCEPT ![u][provider] = "None"]
           /\ UNCHANGED primary_calendar_provider
    /\ UNCHANGED <<conversations, messages, nextConv, nsends, tasks, task_number_seq, events,
                   transactions_store, logged>>

\* disconnect_provider: delete_token, then the primary provider of the
\* settings row read afterwards is moved to the provider of the first token
\* that is left (the query has no ORDER BY), or cleared; snapshot keeps the
\* primary provider the call found
DisconnectProvider(p, u, provider) ==
    /\ requests[p].pc = "idle"
    /\ LET deleted    == oauth_tokens[u][provider] # "None"
           all_tokens == {other \in Providers \ {provider} : oauth_tokens[u][other] # "None"}
       IN  /\ requests' = [requests EXCEPT ![p] =
                  [IdleRequest EXCEPT !.op = "oauth_disconnect", !.user_id = u,
                                      !.content = <<provider>>,
                                      !.snapshot = <<primary_calendar_provider[u]>>,
                                      !.pc = IF deleted THEN "done" ELSE "failed",
                                      !.error = IF deleted THEN "" ELSE "ValueError"]]
           /\ oauth_tokens' = [oauth_tokens EXCEPT ![u][provider] = "None"]
           /\ IF deleted /\ primary_calendar_provider[u] = provider
              THEN IF all_tokens # {}
                   THEN \E other_provider \in all_tokens :
                           primary_calendar_provider' =
                               [primary_calendar_provider EXCEPT ![u] = other_provider]
                   ELSE primary_calendar_provider' =
                               [primary_calendar_provider EXCEPT ![u] = "None"]
              ELSE UNCHANGED primary_calendar_provider
    /\ UNCHANGED <<conversations, messages, nextConv, nsends, tasks, task_number_seq, events,
                   transactions_store, logged>>

NextOAuth ==
    \/ Quiet /\ \E u \in Users, provider \in Providers, set_as_primary \in BOOLEAN,
                   token_data \in {"None", "a1", "a2"} :
                      PollOAuthToken(1, u, provider, set_as_primary, token_data)
    \/ Quiet /\ \E u \in Users, provider \in Providers : DisconnectProvider(1, u, provider)
    \/ \E p \in Procs : Return(p)

SpecOAuth == Init /\ [][NextOAuth]_vars

(***************************************************************************)
(* The monitor router: the in-memory transaction store.  The id of an      *)
(* entry (a fresh uuid4 in the code) is the number of the log_transaction  *)
(* call that made it; of the other fields of an entry only the two that    *)
(* retry_transaction changes are kept.                                     *)
(***************************************************************************)

MAX_TRANSACTIONS == 100

\* log_transaction calls of a run
MaxLogged == 102

\* log_transaction evicting the newest entry of a store that is too long
LogTransactionEvictingNewest(status, error) ==
    /\ logged.count < MaxLogged
    /\ LET transaction == [id |-> logged.count + 1, status |-> status, error |-> error]
           appended    == Append(transactions_store, transaction)
       IN  transactions_store' = IF Len(appended) > MAX_TRANSACTIONS
                                 THEN SubSeq(appended, 1, Len(appended) - 1)
                                 ELSE appended
    /\ logged' = [logged EXCEPT !.count = @ + 1]
    /\ UNCHANGED <<conversations, messages, nextConv, requests, nsends, tasks, task_number_seq,
                   events, primary_calendar_provider, oauth_tokens>>

\* log_transaction: append, then pop(0) when the list is longer than
\* MAX_TRANSACTIONS
LogTransaction(status, error) ==
    /\ logged.count < MaxLogged
    /\ LET transaction == [id |-> logged.count + 1, status |-> status, error |-> error]
           appended    == Append(transactions_store, transaction)
       IN  transactions_store' = IF Len(appended) > MAX_TRANSACTIONS
                                 THEN Tail(appended)
                                 ELSE appended
    /\ logged' = [logged EXCEPT !.count = @ + 1]
    /\ UNCHANGED <<conversations, messages, nextConv, requests, nsends, tasks, task_number_seq,
                   events, primary_calendar_provider, oauth_tokens>>

\* POST /monitor/clear
ClearTransactions ==
    /\ transactions_store' = <<>>
    /\ logged' = [logged EXCEPT !.cleared = logged.count]
    /\ UNCHANGED <<conversations, messages, nextConv, requests, nsends, tasks, task_number_seq,
                   events, primary_calendar_provider, oauth_tokens>>

\* POST /monitor/retry/{transaction_id}: the first entry with this id is
\* marked as pending in place; without such an entry nothing changes
RetryTransaction(transaction_id) ==
    /\ LET found == {i \in 1..Len(transactions_store) : transactions_store[i].id = transaction_id}
       IN  transactions_store' =
               IF found = {} THEN transactions_store
               ELSE LET i == CHOOSE i \in found : \A j \in found : i <= j
                    IN  [transactions_store EXCEPT ![i].status = "pending", ![i].error = "None"]
    /\ UNCHANGED <<conversations, messages, nextConv, requests, nsends, tasks, task_number_seq,
                   events, primary_calendar_provider, oauth_tokens, logged>>

NextMonitor ==
    \/ LogTransaction("failure", "e")
    \/ ClearTransactions
    \/ \E transaction_id \in {1, MAX_TRANSACTIONS + 1} : RetryTransaction(transaction_id)

SpecMonitor == Init /\ [][NextMonitor]_vars

(***************************************************************************)
(* Properties                                                              *)
(***************************************************************************)

SendOps == {"send", "stream"}

\* slot p holds a send or a streaming send
IsSend(p) == requests[p].op \in SendOps

\* the conversation has a row and the row is u's
OwnedBy(c, u) == conversations[c].state = "live" /\ conversations[c].user_id = u

\* the conversation of the request in slot p still has its row
Live(p) == conversations[requests[p].conversation_id].state = "live"

\* the content of the request in slot p is not a command
PlainChat(p) == ~IsCommand(ParsedContent[requests[p].content])

\* positions of the messages with this role that the request in slot p stored
Positions(p, role) ==
    LET msgs == messages[requests[p].conversation_id]
    IN  {i \in 1..Len(msgs) : msgs[i].role = role /\ msgs[i].call = requests[p].call}

\* the user message of the request in slot p is in its conversation, as sent
HasUserMessage(p) ==
    \E i \in Positions(p, "user") :
        messages[requests[p].conversation_id][i].content = requests[p].content

HasAssistantMessage(p) == Positions(p, "assistant") # {}

\* the dispatch of the request in slot p raised
DispatchFailed(p) ==
    requests[p].pc = "failed" /\ requests[p].error \notin {"NotFound", "StatementError"}

IsPrefix(s, t) == Len(s) <= Len(t) /\ \A i \in 1..Len(s) : s[i] = t[i]

\* C1: a send or streaming send on a conversation that has no row or is
\* another user's fails with NotFound in its first step, makes no LLM call
\* and no adapter call, and leaves the messages, the tasks and the calendar
\* events as they were.
C1_NotFoundNoEffect ==
    [][\A p \in Procs :
          ( /\ requests[p].pc = "idle"
            /\ requests'[p].op \in SendOps
            /\ ~OwnedBy(requests'[p].conversation_id, requests'[p].user_id) )
          => /\ requests'[p].pc = "failed"
             /\ requests'[p].error = "NotFound"
             /\ requests'[p].llm_calls = 0
             /\ requests'[p].adapter_calls = 0
             /\ messages' = messages
             /\ tasks' = tasks
             /\ events' = events
             /\ task_number_seq' = task_number_seq]_vars

\* a streaming send on another user's conversation has failed with NotFound
C1_Witness ==
    \E p \in Procs :
        /\ requests[p].op = "stream"
        /\ requests[p].error = "NotFound"
        /\ Live(p)
        /\ conversations[requests[p].conversation_id].user_id # requests[p].user_id

\* what C2 says of a state: the user message is there once the send made an
\* LLM or adapter call or its dispatch failed, ahead of the send's reply
UserMessageKept ==
    \A p \in Procs :
        (IsSend(p) /\ OwnedBy(requests[p].conversation_id, requests[p].user_id))
        => /\ (requests[p].llm_calls > 0 \/ requests[p].adapter_calls > 0 \/ DispatchFailed(p))
                 => HasUserMessage(p)
           /\ \A i \in Positions(p, "user"), j \in Positions(p, "assistant") : i < j

\* C2: a send on the caller's conversation has stored its user message, with
\* the content as sent, by the time it has made an LLM call or an adapter
\* call; the message is still there when the dispatch has failed, and no
\* step other than the deletion of the conversation takes a user message away.
C2_UserMessageFirst ==
    [][ /\ UserMessageKept'
        /\ \A c \in ConvIds :
              conversations'[c].state = "live"
              => \A i \in 1..Len(messages[c]) :
                    messages[c][i].role = "user"
                    => i <= Len(messages'[c]) /\ messages'[c][i] = messages[c][i] ]_vars

\* the dispatch of a send failed and its user message is in the conversation
C2_Witness ==
    \E p \in Procs :
        /\ IsSend(p)
        /\ DispatchFailed(p)
        /\ HasUserMessage(p)
        /\ ~HasAssistantMessage(p)

\* C3: in every conversation the two messages of one send are next to each
\* other: no message of another send lies between them.
C3_PairsContiguous ==
    \A c \in ConvIds :
        \A i, j \in 1..Len(messages[c]) :
            (i < j /\ messages[c][i].call = messages[c][j].call) => j = i + 1

\* the chunks yielded to the caller, joined in order
RECURSIVE JoinChunks(_)
JoinChunks(chunks) == IF chunks = <<>> THEN <<>> ELSE Head(chunks) \o JoinChunks(Tail(chunks))

\* the LLM call of the request in slot p failed: it raised, or the upstream
\* reported an error in its stream
LlmFailed(p) == requests[p].fault = "llm" \/ requests[p].error = "LLMError"

\* C4: the assistant message of a plain-chat streaming send is in the
\* conversation only when the stream has ended, with the joined chunks as
\* its content; when the LLM stream failed or the send was interrupted there
\* is no assistant message of the send and its user message is still there.
C4_StreamedReplyStoredWhole ==
    \A p \in Procs :
        (requests[p].op = "stream" /\ requests[p].user_saved /\ PlainChat(p) /\ Live(p))
        => /\ \A i \in Positions(p, "assistant") :
                 /\ requests[p].pc = "done"
                 /\ messages[requests[p].conversation_id][i].content = JoinChunks(requests[p].chunks)
           /\ (LlmFailed(p) \/ requests[p].pc \in {"failed", "cancelled"})
                 => ~HasAssistantMessage(p) /\ HasUserMessage(p)

CommandFaults == {"llm", "json", "field", "date", "adapter"}

ActionCommands == {"calendar", "reminder", "task"}

FailureTexts == {"Kon de afspraak niet maken: ", "Kon de herinnering niet maken: ", "Kon de taak niet maken: "}

C7_ChatFailurePropagates ==
    \A p \in Procs :
        (IsSend(p) /\ requests[p].user_saved /\ PlainChat(p) /\ LlmFailed(p) /\ Live(p))
        => /\ requests[p].pc # "done"
           /\ ~HasAssistantMessage(p)
           /\ HasUserMessage(p)

\* C8: when the first send on a conversation is over, its user message was
\* stored and its content is a HELP, NOTE or SCAN command, the conversation
\* holds two messages: the user message, then the assistant message.
C8_CreateSendTwoMessages ==
    \A p \in Procs :
        ( /\ requests[p].op = "send"
          /\ requests[p].user_saved
          /\ requests[p].pc \in {"done", "failed"}
          /\ requests[p].call = 1
          /\ OwnedBy(requests[p].conversation_id, requests[p].user_id)
          /\ ParsedContent[requests[p].content].command_type \in {"help", "note", "scan"} )
        => LET msgs == messages[requests[p].conversation_id]
           IN  /\ Len(msgs) = 2
               /\ msgs[1].role = "user" /\ msgs[1].content = requests[p].content
               /\ msgs[2].role = "assistant"

\* C9: a step changes the messages of a conversation only by adding at the
\* end, or by the owner's deletion of the conversation, which leaves none;
\* a conversation without a row has no messages.
C9_AppendOnly ==
    [][\A c \in ConvIds :
          /\ \/ IsPrefix(messages[c], messages'[c])
             \/ /\ messages'[c] = <<>>
                /\ conversations[c].state = "live"
                /\ conversations'[c].state = "deleted"
                /\ conversations'[c].deleted_by = conversations[c].user_id
          /\ conversations'[c].state # "live" => messages'[c] = <<>>]_vars

\* the owner deleted a conversation that had messages
C9_Witness ==
    \E c \in ConvIds :
        /\ conversations[c].state = "deleted"
        /\ conversations[c].deleted_by = conversations[c].user_id
        /\ messages[c] = <<>>
        /\ nsends > 0

\* C10: a send whose content starts with the prefix and whose keyword is not
\* in the table makes no LLM call and is answered with the text for an
\* unknown command.
C10_UnknownCommandNoLlm ==
    \A p \in Procs :
        ( /\ IsSend(p) /\ requests[p].user_saved
          /\ StartsWith(Strip(requests[p].content), COMMAND_PREFIX)
          /\ ParsedContent[requests[p].content].command_type = "unknown" )
        => /\ requests[p].llm_calls = 0
           /\ requests[p].pc = "done" => requests[p].result = UnknownCommandText

\* the text of a TASK command with the delegate, priority, deadline and tags
\* fragments taken out is empty
TitleLeftEmpty(p) ==
    /\ ParsedContent[requests[p].content].command_type = "task"
    /\ ParsedContent[requests[p].content].parameters["title"] = <<>>

\* C11: a TASK send whose title is empty after the delegate, priority,
\* deadline and tags fragments were removed is answered with the validation
\* failure text, and create_task is not called: no task is stored.  (The
\* sends in which the task store itself fails are left aside.)
C11_EmptyTitleRejected ==
    \A p \in Procs :
        (IsSend(p) /\ requests[p].user_saved /\ TitleLeftEmpty(p) /\ requests[p].fault # "adapter")
        => /\ requests[p].adapter_calls = 0
           /\ requests[p].result = TaskTitleEmpty
           /\ \A i \in 1..Len(tasks) :
                 tasks[i].title # ParsedContent[requests[p].content].command_text

\* the message list the plain-chat LLM call of the request in slot p was given
SentToLlm(p) == GetMessagesForClaude(requests[p].snapshot, MaxMessages)

\* C12: while the LLM call of a plain-chat send is in flight, the message
\* list it was given is the window of the most recent messages of the
\* conversation as stored at the call, and its last element is the user
\* message of this send.
C12_LlmSeesStoredWindow ==
    \A p \in Procs :
        (IsSend(p) /\ requests[p].user_saved /\ PlainChat(p)
            /\ requests[p].pc \in {"chat_llm", "streaming"})
        => /\ SentToLlm(p) = GetMessagesForClaude(messages[requests[p].conversation_id], MaxMessages)
           /\ SentToLlm(p) # <<>>
           /\ SentToLlm(p)[Len(SentToLlm(p))] = [role |-> "user", content |-> requests[p].content]

\* the branches that call the LLM gateway: the extraction of a CALENDAR or
\* REMINDER command and plain chat (command type UNKNOWN)
LlmBranches == {"calendar", "reminder", "unknown"}

\* C13: a send that has stored its user message and taken its branch has
\* made one LLM call in the CALENDAR, REMINDER and plain-chat branches and
\* none in the HELP, TASK, NOTE and SCAN branches, and this count never
\* changes afterwards; a NOTE or SCAN send calls no adapter.
C13_LlmCallsByBranch ==
    \A p \in Procs :
        (IsSend(p) /\ requests[p].user_saved)
        => LET command_type == ParsedContent[requests[p].content].command_type
           IN  /\ requests[p].llm_calls = IF command_type \in LlmBranches THEN 1 ELSE 0
               /\ command_type \in {"note", "scan"} => requests[p].adapter_calls = 0

\* a REMINDER send is done after its one LLM call and its adapter call
C13_Witness ==
    \E p \in Procs :
        /\ requests[p].op = "send"
        /\ requests[p].pc = "done"
        /\ ParsedContent[requests[p].content].command_type = "reminder"
        /\ requests[p].llm_calls = 1
        /\ requests[p].adapter_calls = 1

\* the command kind whose help text a HELP command asks for
HelpKind(parsed) ==
    IF parsed.parameters["topic"] = "None" THEN "help" ELSE parsed.parameters["topic"]

\* C14: a HELP send that has stored its user message ends with the assistant
\* message right after the user message, its content the help text of the
\* command kind named in the text, or the general help text when none is named.
C14_HelpTextOfTopic ==
    \A p \in Procs :
        ( /\ IsSend(p) /\ requests[p].user_saved /\ Live(p)
          /\ ParsedContent[requests[p].content].command_type = "help" )
        => /\ requests[p].pc # "failed"
           /\ \E i \in Positions(p, "user") :
                 /\ Positions(p, "assistant") = {i + 1}
                 /\ messages[requests[p].conversation_id][i + 1].content
                       = GetHelpText(HelpKind(ParsedContent[requests[p].content]))

\* the LLM answered the extraction prompt of the request in slot p with a
\* JSON object that has a title and a start_time that is a date
ExtractedTitleAndStart(p) ==
    /\ requests[p].extracted.json
    /\ requests[p].extracted.title # NoneText
    /\ requests[p].extracted.start_time \notin {Missing, BadDate}

\* C15: when the LLM answers a REMINDER command with JSON that has a title
\* and a start_time, create_event is called once, with the start_time of the
\* answer, an end_time 5 minutes later whatever end_time the answer holds,
\* and the title of the answer behind the fixed prefix; an event that is
\* created carries that end_time.
C15_ReminderFiveMinutes ==
    \A p \in Procs :
        ( /\ IsSend(p)
          /\ ParsedContent[requests[p].content].command_type = "reminder"
          /\ ExtractedTitleAndStart(p) )
        => /\ requests[p].adapter_calls = 1
           /\ requests[p].event_request =
                 [title      |-> ReminderPrefix \o requests[p].extracted.title,
                  start_time |-> requests[p].extracted.start_time,
                  end_time   |-> requests[p].extracted.start_time + ReminderMinutes]
           /\ requests[p].fault = ""
                 => \E i \in 1..Len(events) :
                       /\ events[i].start_time = requests[p].extracted.start_time
                       /\ events[i].end_time = events[i].start_time + ReminderMinutes

\* a reminder was created from an answer whose end_time is not 5 minutes
\* after its start_time
C15_Witness ==
    \E p \in Procs :
        /\ IsSend(p)
        /\ ParsedContent[requests[p].content].command_type = "reminder"
        /\ ExtractedTitleAndStart(p)
        /\ requests[p].extracted.end_time # requests[p].extracted.start_time + ReminderMinutes
        /\ requests[p].fault = ""
        /\ Len(events) = 1

\* the task numbers handed out to the creations in flight or just ended
DrawnBy(p) == requests[p].op \in TaskSources /\ requests[p].task_number # 0

\* C16: no two stored tasks carry the same task number; a number handed out
\* to a creation is never handed out to another one, whether the first one
\* is still running, has stored its task or has failed; every number in use
\* was drawn from the sequence, which never goes back.
C16_TaskNumbersUnique ==
    /\ \A i, j \in 1..Len(tasks) : tasks[i].task_number = tasks[j].task_number => i = j
    /\ \A p, q \in Procs :
          (DrawnBy(p) /\ DrawnBy(q) /\ requests[p].task_number = requests[q].task_number) => p = q
    /\ \A p \in Procs :
          (DrawnBy(p) /\ requests[p].pc # "done")
          => \A i \in 1..Len(tasks) : tasks[i].task_number # requests[p].task_number
    /\ \A i \in 1..Len(tasks) : tasks[i].task_number \in 1..task_number_seq
    /\ \A p \in Procs : DrawnBy(p) => requests[p].task_number \in 1..task_number_seq

\* two users' tasks are stored with different numbers after a creation whose
\* insert failed left a gap in the numbers
C16_Witness ==
    /\ Len(tasks) = 2
    /\ tasks[1].user_id # tasks[2].user_id
    /\ task_number_seq = 3
    /\ \E p \in Procs : requests[p].pc = "done" /\ requests[p].op = "task_chat"

\* C17: the stored title of every conversation is a non-empty text.
C17_TitleNeverEmpty ==
    \A c \in ConvIds : conversations[c].state = "live" => conversations[c].title # <<>>

\* a finished generate_title of slot p whose LLM call failed
TitleFellBack(p) ==
    /\ requests[p].op = "title"
    /\ requests[p].pc = "done"
    /\ requests[p].fault = "llm"

\* the content of the first user message of conversation c
FirstUserContent(c) ==
    messages[c][CHOOSE i \in 1..Len(messages[c]) :
                    /\ messages[c][i].role = "user"
                    /\ \A j \in 1..(i - 1) : messages[c][j].role # "user"].content

AnyUserMessage(c) == \E i \in 1..Len(messages[c]) : messages[c][i].role = "user"

\* text t followed by the ellipsis exactly when the content is longer than 30
WithEllipsis(t, content) ==
    IF Len(content) > FallbackLen THEN t \o <<".", ".", ".">> ELSE t

\* t is s without the whitespace at its two ends
IsStripped(t, s) ==
    /\ t # <<>> => t[1] \notin WhiteSpace /\ t[Len(t)] \notin WhiteSpace
    /\ \E i \in 0..Len(s) :
          /\ i + Len(t) <= Len(s)
          /\ \A k \in 1..Len(t) : s[i + k] = t[k]
          /\ \A k \in 1..Len(s) : (k <= i \/ k > i + Len(t)) => s[k] \in WhiteSpace

\* C18 as stated: when the LLM call fails, generate_title of an owned
\* conversation with messages does not raise and returns the first 30
\* characters of the first user message, followed by an ellipsis exactly when
\* that message is longer, or the default title without a user message.
C18_FallbackFirstThirty ==
    \A p \in Procs :
        /\ (requests[p].op = "title" /\ requests[p].llm_calls = 1) => requests[p].pc # "failed"
        /\ TitleFellBack(p) =>
              LET c == requests[p].conversation_id
              IN  requests[p].result =
                      IF AnyUserMessage(c)
                      THEN WithEllipsis(Take(FirstUserContent(c), FallbackLen), FirstUserContent(c))
                      ELSE DefaultTitle

\* C18 amended: the returned text is the first 30 characters of the first user
\* message stripped of surrounding whitespace, followed by an ellipsis exactly
\* when that message is longer than 30 characters; the call does not raise.
C18_FallbackStripped ==
    \A p \in Procs :
        /\ (requests[p].op = "title" /\ requests[p].llm_calls = 1) => requests[p].pc # "failed"
        /\ TitleFellBack(p) =>
              LET c == requests[p].conversation_id
              IN  IF AnyUserMessage(c)
                  THEN \E t \in {Take(requests[p].result, n) : n \in 0..Len(requests[p].result)} :
                          /\ requests[p].result = WithEllipsis(t, FirstUserContent(c))
                          /\ IsStripped(t, Take(FirstUserContent(c), FallbackLen))
                  ELSE requests[p].result = DefaultTitle

\* a failed LLM call answered with a cut and stripped preview and the ellipsis
C18_Witness ==
    \E p \in Procs :
        /\ TitleFellBack(p)
        /\ Len(FirstUserContent(requests[p].conversation_id)) > FallbackLen
        /\ Len(requests[p].result) = FallbackLen + 2

\* a finished generate_title of slot p whose LLM call returned a text
TitleGenerated(p) ==
    /\ requests[p].op = "title"
    /\ requests[p].pc = "done"
    /\ requests[p].llm_calls = 1
    /\ requests[p].fault = ""

QuoteChars == {"\"", "'"}

\* C19: when the LLM call succeeds, generate_title returns a text of at most
\* 50 characters without a quote character at either end, and the stored
\* title of the conversation is the returned text.
C19_TitleCleanAndStored ==
    \A p \in Procs :
        TitleGenerated(p) =>
            LET title == requests[p].result
            IN  /\ Len(title) <= TitleMaxLen
                /\ title # <<>> => title[1] \notin QuoteChars /\ title[Len(title)] \notin QuoteChars
                /\ conversations[requests[p].conversation_id].title = title

\* the endpoints that take a conversation id, by the operation they serve
IdEndpoints == {"send", "stream", "get", "delete", "list", "title"}

\* the request of slot p named a conversation that is missing or not the
\* caller's, and has been answered
AnsweredNotFound(p) ==
    /\ requests[p].op \in IdEndpoints
    /\ requests[p].pc = "failed"
    /\ requests[p].error = "NotFound"

\* C20: a request to an endpoint taking a conversation id that names a
\* conversation which is missing or not owned by the caller is answered with
\* status 404.
C20_NotFoundIs404 ==
    \A p \in Procs : AnsweredNotFound(p) => StatusCode(requests[p]) = HTTP_404_NOT_FOUND

\* the request of slot p is a streaming send whose response ran to its end
StreamEnded(p) == requests[p].op = "stream" /\ requests[p].pc \in {"done", "failed"}

IsDoneEvent(e) == e = DoneEvent

IsErrorEvent(e) == Len(e) = 3 /\ e[1] = "event: error\ndata: " /\ e[3] = "\n\n"

\* the assistant message of the request in slot p is stored and is the text
\* of its chunks
ReplyPersisted(p) ==
    \E i \in Positions(p, "assistant") :
        messages[requests[p].conversation_id][i].content = JoinChunks(requests[p].chunks)

\* the events of a response that ran to its end: a data event per chunk, in
\* order, then the only terminal event
EndedStreamShape(p) ==
    LET sent   == EventGenerator(requests[p])
        chunks == requests[p].chunks
    IN  /\ Len(sent) = Len(chunks) + 1
        /\ \A i \in 1..Len(chunks) :
              /\ sent[i] = <<"data: ">> \o chunks[i] \o <<"\n\n">>
              /\ ~IsDoneEvent(sent[i]) /\ ~IsErrorEvent(sent[i])
        /\ IsDoneEvent(sent[Len(sent)]) \/ IsErrorEvent(sent[Len(sent)])
        /\ IsDoneEvent(sent[Len(sent)]) <=> (requests[p].error = "" /\ ReplyPersisted(p))

\* C21: a response of the streaming endpoint that runs to its end is one data
\* event per chunk, in the order the chunks were produced, followed by exactly
\* one terminal event after which nothing is sent: the [DONE] event if and
\* only if the send completed with its assistant message stored, otherwise an
\* error event.
C21_StreamEvents ==
    /\ [](\A p \in Procs : StreamEnded(p) => EndedStreamShape(p))
    /\ [][\A p \in Procs :
             /\ requests[p].op = "stream" /\ requests'[p].op = "stream"
                    => IsPrefix(EventGenerator(requests[p]), EventGenerator(requests'[p]))
             /\ StreamEnded(p) => requests'[p] \in {requests[p], IdleRequest}]_vars

\* a streamed plain-chat reply of two chunks that ended with the [DONE] event
C21_Witness ==
    \E p \in Procs :
        /\ StreamEnded(p)
        /\ Len(requests[p].chunks) = 2
        /\ IsDoneEvent(EventGenerator(requests[p])[3])
        /\ ReplyPersisted(p)

\* a streamed reply that ended with an error event after a chunk
C21_WitnessError ==
    \E p \in Procs :
        /\ StreamEnded(p)
        /\ Len(requests[p].chunks) = 1
        /\ IsErrorEvent(EventGenerator(requests[p])[2])

\* parse was applied to the text of slot p
Parsed(p) == requests[p].op = "parse" /\ requests[p].pc = "done"

\* C22 as stated: for every text that does not start with the prefix
\* character, the parse is not a command and has no parameters.
C22_NoPrefixNoCommand ==
    \A p \in Procs :
        (Parsed(p) /\ ~StartsWith(requests[p].content, COMMAND_PREFIX)) =>
            /\ ~IsCommand(requests[p].parsed)
            /\ requests[p].parsed.parameters = EmptyParams

\* the text without the whitespace at its two ends
Trimmed(text) ==
    LET keep == {i \in 1..Len(text) : text[i] \notin WhiteSpace}
    IN  IF keep = {} THEN <<>>
        ELSE SubSeq(text, CHOOSE i \in keep : \A j \in keep : i <= j,
                          CHOOSE i \in keep : \A j \in keep : i >= j)

\* C22 amended: for every text that, trimmed of surrounding whitespace, does
\* not start with the prefix character, the parse is not a command and has
\* no parameters.
C22_TrimmedNoPrefixNoCommand ==
    \A p \in Procs :
        (Parsed(p) /\ (Trimmed(requests[p].content) = <<>> \/ Trimmed(requests[p].content)[1] # "#")) =>
            /\ ~IsCommand(requests[p].parsed)
            /\ requests[p].parsed.parameters = EmptyParams

\* a parsed text with a space before its first word and prefixes after it
C22_Witness ==
    \E p \in Procs :
        /\ Parsed(p)
        /\ requests[p].content = <<" ", "h", "i", " ", "#">>
        /\ requests[p].parsed.command_type = "unknown"

\* C23: the parse of every text is a command exactly when its kind is not
\* UNKNOWN, and a parse of kind UNKNOWN has an empty parameter map and keeps
\* the text (as trimmed by parse) as its original text.
C23_UnknownCarriesNothing ==
    \A p \in Procs :
        Parsed(p) =>
            /\ IsCommand(requests[p].parsed) <=> requests[p].parsed.command_type # "unknown"
            /\ requests[p].parsed.command_type = "unknown" =>
                  /\ requests[p].parsed.parameters = EmptyParams
                  /\ requests[p].parsed.original_text = Trimmed(requests[p].content)

\* the text of slot p is "#task " followed by a title
IsTaskText(p) == Parsed(p) /\ StartsWith(requests[p].content, TaskPrefix)

TitleOf(p) == From(requests[p].content, Len(TaskPrefix) + 1)

\* the parse of slot p is a TASK with this title and nothing else extracted
OnlyTitle(p, title) ==
    /\ requests[p].parsed.command_type = "task"
    /\ DOMAIN requests[p].parsed.parameters = {"raw_text", "title"}
    /\ requests[p].parsed.parameters["title"] = title

\* C24 as stated: for "#task " followed by a title without '@', 'priority',
\* 'deadline' or 'tags', parse returns kind TASK, the title as given, and
\* no delegate, priority, due date or tags.
C24_PlainTitleKept ==
    \A p \in Procs :
        ( /\ IsTaskText(p)
          /\ \A w \in {<<"@">>, <<"p","r","i","o","r","i","t","y">>,
                       <<"d","e","a","d","l","i","n","e">>, <<"t","a","g","s">>} :
                ~Contains(TitleOf(p), w) )
        => OnlyTitle(p, TitleOf(p))

\* C24 amended: for "#task " followed by a title without '@' and, in any
\* letter case, without the letters 'priority', 'deadline' or 'tag', parse
\* returns kind TASK, the title trimmed of surrounding whitespace, and no
\* delegate, priority, due date or tags.
C24_PlainTitleTrimmed ==
    \A p \in Procs :
        ( /\ IsTaskText(p)
          /\ \A w \in {<<"@">>, <<"p","r","i","o","r","i","t","y">>,
                       <<"d","e","a","d","l","i","n","e">>, <<"t","a","g">>} :
                ~Contains(Lower(TitleOf(p)), w) )
        => OnlyTitle(p, Trimmed(TitleOf(p)))

\* a parsed "#task" text whose title has two words and a doubled space
C24_Witness ==
    \E p \in Procs :
        /\ IsTaskText(p)
        /\ TitleOf(p) = <<"R", " ", " ", "x">>
        /\ OnlyTitle(p, TitleOf(p))

\* the fragments of a TASK text and its plain words, as words of the text
MentionWord  == <<"@","b","o","b">>
PriorityWord == <<"p","r","i","o","r","i","t","y"," ","h","i","g","h">>
DeadlineWord == <<"d","e","a","d","l","i","n","e"," ","f","r","i">>
TagsWord     == <<"t","a","g","s"," ","a",",","b">>
PlainWords   == { <<"x">>, <<"R">> }
FragmentWords == { MentionWord, PriorityWord, DeadlineWord, TagsWord }

\* the sequences of words in which every fragment appears at most once
FragmentTexts ==
    { ws \in WordSeqs(FragmentWords \cup PlainWords) :
          \A i, j \in 1..Len(ws) : (ws[i] = ws[j] /\ ws[i] \in FragmentWords) => i = j }

\* the plain words of ws that belong to the deadline phrase: those after the
\* deadline word and before the next fragment
InDeadline(ws, i) ==
    /\ ws[i] \in PlainWords
    /\ \E d \in 1..(i - 1) : ws[d] = DeadlineWord /\ \A k \in (d + 1)..i : ws[k] \in PlainWords

\* the words of ws at the positions in idx, in order, joined by spaces
RECURSIVE JoinAt(_, _, _)
JoinAt(ws, idx, i) ==
    IF i > Len(ws) THEN <<>>
    ELSE IF i \notin idx THEN JoinAt(ws, idx, i + 1)
    ELSE IF \E k \in idx : k > i THEN ws[i] \o <<" ">> \o JoinAt(ws, idx, i + 1)
    ELSE ws[i]

\* what the grammar of the TASK command says a text of these words holds
ExpectedTask(ws) ==
    LET has(w)   == \E i \in 1..Len(ws) : ws[i] = w
        due      == {i \in 1..Len(ws) : InDeadline(ws, i)}
        titleIdx == {i \in 1..Len(ws) : ws[i] \in PlainWords /\ i \notin due}
    IN  [delegated_to |-> IF has(MentionWord) THEN <<"b","o","b">> ELSE NoneText,
         priority     |-> IF has(PriorityWord) THEN <<"h","i","g","h">> ELSE NoneText,
         due_date     |-> IF has(DeadlineWord)
                          THEN Lower(IF due = {} THEN <<"f","r","i">>
                                     ELSE <<"f","r","i"," ">> \o JoinAt(ws, due, 1))
                          ELSE NoneText,
         tags         |-> IF has(TagsWord) THEN << <<"a">>, <<"b">> >> ELSE <<>>,
         title        |-> JoinAt(ws, titleIdx, 1)]

\* the text with every run of spaces reduced to one space
SingleSpaced(text) ==
    LET keep == {i \in 1..Len(text) : ~(text[i] = " " /\ i < Len(text) /\ text[i + 1] = " ")}
    IN  [k \in 1..Cardinality(keep) |->
            text[CHOOSE i \in keep : Cardinality({j \in keep : j <= i}) = k]]

\* what parse extracted, absent keys read as None; the spaces left where a
\* fragment was cut out of the text do not count
ExtractedTask(params) ==
    [delegated_to |-> Get(params, "delegated_to", NoneText),
     priority     |-> Get(params, "priority", NoneText),
     due_date     |-> SingleSpaced(Get(params, "due_date", NoneText)),
     tags         |-> Get(params, "tags", <<>>),
     title        |-> SingleSpaced(Get(params, "title", NoneText))]

\* C25: for a TASK text with its fragments in any order, the due date is the
\* text between 'deadline' and the next fragment or the end of the text, the
\* delegate, the priority and the tags are extracted once each, and every
\* word outside the four fragments is in the title.
C25_FragmentsInAnyOrder ==
    \A p \in Procs :
        \A ws \in FragmentTexts :
            (Parsed(p) /\ requests[p].content = TaskPrefix \o JoinWords(ws)) =>
                /\ requests[p].parsed.command_type = "task"
                /\ ExtractedTask(requests[p].parsed.parameters) = ExpectedTask(ws)

\* the rows a request stored in its conversation, in order: role, content
\* and metadata
PersistedBy(p) ==
    LET msgs == messages[requests[p].conversation_id]
        own  == {i \in 1..Len(msgs) : msgs[i].call = requests[p].call}
        RECURSIVE Rows(_)
        Rows(i) == IF i > Len(msgs) THEN <<>>
                   ELSE IF i \in own
                   THEN <<[role |-> msgs[i].role, content |-> msgs[i].content, meta |-> msgs[i].meta]>>
                            \o Rows(i + 1)
                   ELSE Rows(i + 1)
    IN  IF requests[p].user_saved THEN Rows(1) ELSE <<>>

\* the number in the reply of a created task is the next of the sequence:
\* two rows are the same when they differ in nothing else
SameRows(a, b) ==
    /\ Len(a) = Len(b)
    /\ \A i \in 1..Len(a) :
          \/ a[i] = b[i]
          \/ /\ a[i].role = "assistant" /\ b[i].role = "assistant"
             /\ Len(a[i].content) >= 2 /\ Len(b[i].content) >= 2
             /\ a[i].content[1] = "Taak aangemaakt!" /\ b[i].content[1] = "Taak aangemaakt!"
             /\ Tail(Tail(a[i].content)) = Tail(Tail(b[i].content))

\* slot 1 holds a finished buffered send and slot 2 a finished streaming
\* send of the same command, and the database, the LLM and the adapters
\* behaved alike
PairFinished ==
    /\ requests[1].op = "send" /\ requests[2].op = "stream"
    /\ requests[1].pc \in {"done", "failed"} /\ requests[2].pc \in {"done", "failed"}
    /\ requests[1].content = requests[2].content
    /\ requests[1].user_saved = requests[2].user_saved
    /\ requests[1].extracted = requests[2].extracted
    /\ requests[1].fault = requests[2].fault

EventOps == {"send", "stream", "event_create", "event_update"}

\* the request of slot p got as far as the calls to the provider: the use
\* case was called, a provider is set, and the entity passed its validation
HandedToProvider(p) ==
    /\ requests[p].op \in EventOps
    /\ requests[p].adapter_calls = 1
    /\ primary_calendar_provider[requests[p].user_id] # "None"
    /\ requests[p].fault \in {"", "adapter"}

\* C27: every event handed to a calendar provider, from a CALENDAR or
\* REMINDER command or from the calendar API, has a title that is not blank
\* and ends after it starts; a request whose end time is not after its start
\* time reaches no provider, and in the chat the failure reply is stored.
C27_EventsValid ==
    /\ \A i \in 1..Len(events) :
          events[i].title # <<>> /\ events[i].end_time > events[i].start_time
    /\ \A p \in Procs :
          /\ HandedToProvider(p) =>
                /\ Strip(requests[p].event_request.title) # <<>>
                /\ requests[p].event_request.end_time > requests[p].event_request.start_time
          /\ ( /\ requests[p].op \in EventOps
               /\ requests[p].adapter_calls = 1
               /\ requests[p].event_request.end_time <= requests[p].event_request.start_time )
             => /\ ~HandedToProvider(p)
                /\ requests[p].pc # "done" \/ IsSend(p)
                /\ (IsSend(p) /\ requests[p].pc = "done") =>
                      \E i \in Positions(p, "assistant") :
                          messages[requests[p].conversation_id][i].content[1] \in FailureTexts

\* a CALENDAR command whose extracted end time lies before its start time,
\* answered with the failure reply
C27_Witness ==
    \E p \in Procs :
        /\ IsSend(p) /\ requests[p].pc = "done"
        /\ ParsedContent[requests[p].content].command_type = "calendar"
        /\ requests[p].adapter_calls = 1
        /\ primary_calendar_provider[requests[p].user_id] # "None"
        /\ requests[p].event_request.end_time < requests[p].event_request.start_time
        /\ HasAssistantMessage(p)

\* an event of the calendar API handed to the provider and created
C27_WitnessApi ==
    \E p \in Procs :
        /\ requests[p].op = "event_update" /\ requests[p].pc = "done"
        /\ HandedToProvider(p)

\* the stored title of the conversation of slot p
TitleStored(p) == conversations[requests[p].conversation_id].title

\* C28: generate_title changes the stored title only on its success path: a
\* call on a conversation without messages or of another user, and a call
\* whose LLM call fails and that returns the fallback text, leave every
\* stored title as it was.
C28_TitleChangedOnlyOnSuccess ==
    [][\A p \in Procs :
          ( /\ requests'[p].op = "title"
            /\ requests'[p] # requests[p]
            /\ ~( /\ requests'[p].pc = "done"
                  /\ requests'[p].llm_calls = 1
                  /\ requests'[p].fault = "" ) )
          => conversations' = conversations]_vars

\* a generate_title whose LLM call failed, answered with the fallback text
\* while the conversation keeps a title generated before
C28_Witness ==
    \E p \in Procs :
        /\ TitleFellBack(p)
        /\ requests[p].result # TitleStored(p)
        /\ TitleStored(p) # DefaultTitle

\* the providers user u holds a token of
Connected(u) == {provider \in Providers : oauth_tokens[u][provider] # "None"}

\* slot p holds a disconnect that deleted the token of the provider that was
\* the primary one of its user
DisconnectedPrimary(p) ==
    /\ requests[p].op = "oauth_disconnect"
    /\ requests[p].pc = "done"
    /\ requests[p].snapshot = requests[p].content

\* C29: after any sequence of polls (token stored or still pending, with
\* set_as_primary true or false) and disconnects, the primary calendar
\* provider of every user is unset or is a provider the user holds a token
\* of; and a disconnect of the primary provider leaves as primary another
\* connected provider when there is one and none otherwise.
C29_PrimaryIsConnected ==
    /\ \A u \in Users :
          primary_calendar_provider[u] = "None" \/ primary_calendar_provider[u] \in Connected(u)
    /\ \A p \in Procs :
          DisconnectedPrimary(p) =>
             LET u == requests[p].user_id
             IN  /\ requests[p].content[1] \notin Connected(u)
                 /\ IF Connected(u) # {}
                    THEN primary_calendar_provider[u] \in Connected(u)
                    ELSE primary_calendar_provider[u] = "None"

\* a disconnect of the primary provider moved the primary to the other provider
C29_Witness ==
    \E p \in Procs :
        /\ DisconnectedPrimary(p)
        /\ primary_calendar_provider[requests[p].user_id] \in Providers

\* a poll stored a token of a provider that is not the primary one
C29_WitnessNotPrimary ==
    \E p \in Procs :
        /\ requests[p].op = "oauth_poll"
        /\ requests[p].result # NoneText
        /\ primary_calendar_provider[requests[p].user_id] # requests[p].content[1]

\* the ids of the entries in the store, in the order of the list
StoredIds == [i \in 1..Len(transactions_store) |-> transactions_store[i].id]

\* the ids of the last MAX_TRANSACTIONS entries logged since the last clear,
\* oldest first
LatestLoggedIds ==
    LET oldest == IF logged.count - MAX_TRANSACTIONS > logged.cleared
                  THEN logged.count - MAX_TRANSACTIONS + 1
                  ELSE logged.cleared + 1
    IN  [i \in 1..(logged.count - oldest + 1) |-> oldest + i - 1]

\* C30: after any sequence of log_transaction, clear and retry calls the
\* store holds at most MAX_TRANSACTIONS entries, and they are the entries
\* logged last since the last clear, in the order they were logged in: a
\* full store loses its oldest entry.
C30_StoreHoldsLatest ==
    /\ Len(transactions_store) <= MAX_TRANSACTIONS
    /\ StoredIds = LatestLoggedIds

\* an entry was evicted from a full store, and an entry logged after that
\* was retried
C30_Witness ==
    /\ Len(transactions_store) = MAX_TRANSACTIONS
    /\ logged.count > MAX_TRANSACTIONS
    /\ logged.cleared = 0
    /\ \E i \in 1..Len(transactions_store) : transactions_store[i].status = "pending"

\* entries logged after a clear
C30_WitnessCleared ==
    /\ logged.cleared > 0
    /\ Len(transactions_store) > 1

====
